---- MODULE Spec2Model ----
(***************************************************************************)
(* Payment-event reconciliation and seller-account status of payme.        *)
(*                                                                         *)
(* The DynamoDB tables are the state: transactions (PK user_id, SK         *)
(* date#payment_intent_id), payment links, subscription links and the      *)
(* stripe-accounts table.  Every webhook handler is one action of Spec;    *)
(* SpecConc runs handle_payment_succeeded as interleaved storage calls.    *)
(*                                                                         *)
(* Encodings: Python None and "" are both "" (the code tests them with     *)
(* `not x`); a `created` timestamp is the number of its UTC day, 0 when    *)
(* the field is absent; base_amount metadata is <<n>> for the numeric      *)
(* string n and <<>> when float() cannot read it; an external payment id   *)
(* is <<1, n>> for "pi_n" and <<0, n>> for "in_n" ("in_" sorts before      *)
(* "pi_").  Customer contact fields are not part of the model.             *)
(***************************************************************************)
EXTENDS Integers, Sequences, FiniteSets, TLC

VARIABLES
    transactions,        \* set of Transaction rows
    payment_links,       \* link_id -> [earnings_amount, total_amount_paid]
    subscription_links,  \* subscription_id -> [earnings_amount, total_amount_paid]
    stripe_accounts,     \* user_id -> seller account item
    sub_metadata,        \* metadata of the subscription kept at the processor
    stripe_subscriptions, \* subscriber rows, one per subscription id
    today,               \* current UTC day (datetime.now)
    created_of,          \* created day of each processor object delivered so far
    calls,               \* number of handler calls made
    pre,                 \* the tables before the last handler call
    last,                \* the last handler call: operation, event, outcome
    procs,               \* SpecConc: the concurrent handlers
    quote,               \* SpecFees: one call of the fee engine
    link_items           \* link records written by the link-creation routes

vars == <<transactions, payment_links, subscription_links, stripe_accounts,
          sub_metadata, stripe_subscriptions, today, created_of, calls, pre,
          last, procs, quote, link_items>>

----------------------------------------------------------------------------
(* Bounds *)

MaxCalls == 3
MaxAccountCalls == 4
MaxDay == 2
MaxId == 2

Users == {"u1"}
LinkIds == {"l1"}
Currencies == {"gbp", "usd"}
Ids == 1..MaxId
Days == 1..MaxDay

StatusNEW == "NEW"
StatusRESTRICTED == "RESTRICTED"
StatusVERIFIED == "VERIFIED"

PAYMENT_SUCCEEDED == "payment_intent.succeeded"
PAYMENT_FAILED == "payment_intent.payment_failed"
INVOICE_PAID == "invoice.paid"
ACCOUNT_UPDATED == "account.updated"

----------------------------------------------------------------------------
(* Maps (DynamoDB map attributes): functions whose domain is the key set *)

EmptyMap == [c \in {} |-> 0]

MapGet(m, c) == IF c \in DOMAIN m THEN m[c] ELSE 0

MapAdd(m, c, amt) ==
    [k \in (DOMAIN m) \cup {c} |-> IF k = c THEN MapGet(m, c) + amt ELSE m[k]]

MapRemove(m, cs) == [k \in (DOMAIN m) \ cs |-> m[k]]

----------------------------------------------------------------------------
(* Transactions table *)

PiId(n) == <<1, n>>
InId(n) == <<0, n>>

PidLess(p, q) == p[1] < q[1] \/ (p[1] = q[1] /\ p[2] < q[2])

\* order of the sort key "YYYY-MM-DD#payment_intent_id"
KeyLess(a, b) == a.date < b.date \/ (a.date = b.date /\ PidLess(a.pid, b.pid))

SameKey(a, b) == a.user = b.user /\ a.date = b.date /\ a.pid = b.pid

\* _date_transaction_id: the event's created day, or today's when absent
date_transaction_id(created, now) == IF created # 0 THEN created ELSE now

\* TransactionsRepository.put: put_item without a condition replaces the row
\* that has the same (user_id, date_transaction_id)
put(txs, row) == {r \in txs : ~SameKey(r, row)} \cup {row}

\* TransactionsRepository.get_by_payment_intent_id: Query of the user's
\* partition in sort-key order with Limit=1; DynamoDB applies the limit to
\* the rows read and the FilterExpression to what was read.
get_by_payment_intent_id(txs, user, pid) ==
    LET part == {r \in txs : r.user = user}
        read == {r \in part : \A o \in part : ~KeyLess(o, r)}
    IN  {r \in read : r.pid = pid}

----------------------------------------------------------------------------
(* Link tables and the stripe-accounts table *)

NoAccount ==
    [exists |-> FALSE, stripe_account_id |-> "", status |-> "",
     earnings |-> EmptyMap, pending_earnings |-> EmptyMap]

\* PaymentLinksRepository / SubscriptionsRepository.add_payment_result
add_payment_result(tbl, link, earn, tot) ==
    [tbl EXCEPT ![link] =
        [earnings_amount |-> @.earnings_amount + earn,
         total_amount_paid |-> @.total_amount_paid + tot]]

\* update_item creates the item when it is missing
add_pending_earnings(acc, user, amt, c) ==
    [acc EXCEPT ![user].exists = TRUE,
                ![user].pending_earnings = MapAdd(@, c, amt)]

\* variant: the amount is written over the stored value, not added to it
add_earnings_set(acc, user, amt, c) ==
    [acc EXCEPT ![user].exists = TRUE,
                ![user].earnings = [k \in (DOMAIN @) \cup {c} |->
                                       IF k = c THEN amt ELSE @[k]]]

add_earnings(acc, user, amt, c) ==
    [acc EXCEPT ![user].exists = TRUE,
                ![user].earnings = MapAdd(@, c, amt)]

\* get_pending_earnings: the positive entries only
get_pending_earnings(acc, user) ==
    LET pe == acc[user].pending_earnings
    IN  [c \in {k \in DOMAIN pe : pe[k] > 0} |-> pe[c]]

\* variant: the transferred currencies are set to zero, their keys kept
clear_pending_earnings_zero(acc, user, cs) ==
    IF cs = {}
    THEN [acc EXCEPT ![user].exists = TRUE, ![user].pending_earnings = EmptyMap]
    ELSE [acc EXCEPT ![user].exists = TRUE,
                     ![user].pending_earnings =
                         [k \in DOMAIN @ |-> IF k \in cs THEN 0 ELSE @[k]]]

clear_pending_earnings(acc, user, cs) ==
    IF cs = {} THEN [acc EXCEPT ![user].exists = TRUE,
                                ![user].pending_earnings = EmptyMap]
    ELSE [acc EXCEPT ![user].exists = TRUE,
                     ![user].pending_earnings = MapRemove(@, cs)]

update_status(acc, user, s) ==
    [acc EXCEPT ![user].exists = TRUE, ![user].status = s]

update_stripe_account_id(acc, user, sid) ==
    [acc EXCEPT ![user].exists = TRUE, ![user].stripe_account_id = sid,
                ![user].status = StatusRESTRICTED]

\* variant: put_item without the condition
create_unconditional(acc, user, sid) ==
    [acc EXCEPT ![user] = [NoAccount EXCEPT !.exists = TRUE,
                                           !.stripe_account_id = sid,
                                           !.status = StatusNEW]]

\* StripeAccountRepository.create: put_item under the condition that no item
\* has the user_id; ConditionalCheckFailedException leaves the table as it is
create(acc, user, sid) ==
    IF acc[user].exists THEN acc
    ELSE [acc EXCEPT ![user] = [NoAccount EXCEPT !.exists = TRUE,
                                                !.stripe_account_id = sid,
                                                !.status = StatusNEW]]

\* ... and is raised to the caller
create_raises(acc, user) == acc[user].exists

\* get_by_stripe_account_id: the users whose item carries this account id
get_by_stripe_account_id(acc, sid) ==
    {u \in Users : acc[u].exists /\ acc[u].stripe_account_id = sid}

----------------------------------------------------------------------------
(* Event extraction (stripe_event_handler.py) *)

NoMeta == [user |-> "", link |-> "", base |-> <<>>]

\* (obj.get("currency") or "usd").lower()
currency_of(ev) ==
    CASE ev.currency = "" -> "usd"
      [] ev.currency = "GBP" -> "gbp"
      [] ev.currency = "USD" -> "usd"
      [] OTHER -> ev.currency

\* _extract_from_payment_intent: <<>> is None
\* variant: only an event with neither user_id nor link_id is rejected
extract_from_payment_intent_either(ev) ==
    IF ev.metadata.user = "" /\ ev.metadata.link = "" THEN <<>>
    ELSE LET amount == IF ev.amount_received # 0 THEN ev.amount_received
                       ELSE ev.amount
         IN  IF amount <= 0 THEN <<>>
             ELSE <<[user |-> ev.metadata.user, link |-> ev.metadata.link,
                     base |-> ev.metadata.base, amount |-> amount,
                     currency |-> currency_of(ev), created |-> ev.created]>>

extract_from_payment_intent(ev) ==
    IF ev.metadata.user = "" \/ ev.metadata.link = "" THEN <<>>
    ELSE LET amount == IF ev.amount_received # 0 THEN ev.amount_received
                       ELSE ev.amount
         IN  IF amount <= 0 THEN <<>>
             ELSE <<[user |-> ev.metadata.user, link |-> ev.metadata.link,
                     base |-> ev.metadata.base, amount |-> amount,
                     currency |-> currency_of(ev), created |-> ev.created]>>

\* _extract_minimal_for_failed: the requested amount, no amount check
extract_minimal_for_failed(ev) ==
    IF ev.metadata.user = "" \/ ev.metadata.link = "" THEN <<>>
    ELSE <<[user |-> ev.metadata.user, link |-> ev.metadata.link,
            base |-> ev.metadata.base, amount |-> ev.amount,
            currency |-> currency_of(ev), created |-> ev.created]>>

HasPair(m) == m.user # "" /\ m.link # ""

\* _metadata_from_invoice_payment_intent
metadata_from_invoice_payment_intent(ev) ==
    IF ev.payment_intent = 0 \/ ~ev.pi_ok THEN NoMeta ELSE ev.pi_metadata

\* variant: metadata recovered from the payment intent is not written back
extract_from_invoice_no_write_back(ev, sub) ==
    IF ~ev.subscription THEN [res |-> <<>>, sub |-> sub]
    ELSE
    LET payload == IF HasPair(ev.metadata) THEN ev.metadata
                   ELSE IF HasPair(ev.line_metadata) THEN ev.line_metadata
                   ELSE NoMeta
    IN
    IF ~HasPair(payload) /\ ~ev.sub_ok THEN [res |-> <<>>, sub |-> sub]
    ELSE
    LET m1 == IF HasPair(payload) THEN payload ELSE sub
        m2 == IF ~HasPair(m1) THEN metadata_from_invoice_payment_intent(ev) ELSE m1
    IN
    IF ~HasPair(m2) \/ ev.amount_received <= 0 THEN [res |-> <<>>, sub |-> sub]
    ELSE [res |-> <<[user |-> m2.user, link |-> m2.link, base |-> m2.base,
                     amount |-> ev.amount_received,
                     currency |-> currency_of(ev), created |-> ev.created]>>,
          sub |-> sub]

\* _extract_from_invoice: res is <<>> (None) or <<record>>; sub is the
\* subscription metadata at the processor after the call (write-back)
extract_from_invoice(ev, sub) ==
    IF ~ev.subscription THEN [res |-> <<>>, sub |-> sub]
    ELSE
    LET payload == IF HasPair(ev.metadata) THEN ev.metadata
                   ELSE IF HasPair(ev.line_metadata) THEN ev.line_metadata
                   ELSE NoMeta
    IN
    IF ~HasPair(payload) /\ ~ev.sub_ok THEN [res |-> <<>>, sub |-> sub]
    ELSE
    LET m1 == IF HasPair(payload) THEN payload ELSE sub
        viaPi == ~HasPair(m1)
        m2 == IF viaPi THEN metadata_from_invoice_payment_intent(ev) ELSE m1
        sub2 == IF viaPi /\ HasPair(m2) /\ ev.mod_ok THEN m2 ELSE sub
    IN
    IF ~HasPair(m2) THEN [res |-> <<>>, sub |-> sub2]
    ELSE IF ev.amount_received <= 0 THEN [res |-> <<>>, sub |-> sub2]
    ELSE [res |-> <<[user |-> m2.user, link |-> m2.link, base |-> m2.base,
                     amount |-> ev.amount_received,
                     currency |-> currency_of(ev), created |-> ev.created]>>,
          sub |-> sub2]

\* _earnings_from_base_amount: float(base_amount); <<>> raises
earnings_from_base_amount(x) == x.base[1]

----------------------------------------------------------------------------
(* Reconciliation (stripe_event_handler.py) *)

Row(x, pid, status, account, now) ==
    [user |-> x.user, date |-> date_transaction_id(x.created, now), pid |-> pid,
     link |-> x.link, amount |-> x.amount, currency |-> x.currency,
     status |-> status, stripe_account_id |-> account]

Out(S, ret) == [store |-> S, ret |-> ret]

\* lines 383-414 of handle_payment_succeeded and 721-752 of
\* handle_invoice_paid: the storage calls in order; a ValueError of
\* add_payment_result is caught and gives False with the row written
\* variant: pending earnings are added whether or not the payment went to a
\* connected account
credit_pending_always(S, x, pid, account, now, tbl, fail) ==
    LET earnings == earnings_from_base_amount(x)
        S1 == [S EXCEPT !.tx = put(@, Row(x, pid, "succeeded", account, now))]
        S2 == [S1 EXCEPT ![tbl] = add_payment_result(@, x.link, earnings, x.amount)]
        S3 == IF earnings > 0
              THEN [S2 EXCEPT !.acc = add_pending_earnings(@, x.user, earnings, x.currency)]
              ELSE S2
        S4 == IF earnings > 0
              THEN [S3 EXCEPT !.acc = add_earnings(@, x.user, earnings, x.currency)]
              ELSE S3
    IN  IF fail = "put" THEN Out(S, "false")
        ELSE IF fail = "link" \/ earnings < 0 \/ x.amount < 0 THEN Out(S1, "false")
        ELSE IF fail = "pending" /\ earnings > 0 THEN Out(S2, "false")
        ELSE IF fail = "earnings" /\ earnings > 0 THEN Out(S3, "false")
        ELSE Out(S4, "true")

\* variant: add_payment_result accepts negative amounts
credit_negative_accepted(S, x, pid, account, now, tbl, fail) ==
    LET earnings == earnings_from_base_amount(x)
        S1 == [S EXCEPT !.tx = put(@, Row(x, pid, "succeeded", account, now))]
        S2 == [S1 EXCEPT ![tbl] = add_payment_result(@, x.link, earnings, x.amount)]
        S3 == IF account = "" /\ earnings > 0
              THEN [S2 EXCEPT !.acc = add_pending_earnings(@, x.user, earnings, x.currency)]
              ELSE S2
        S4 == IF earnings > 0
              THEN [S3 EXCEPT !.acc = add_earnings(@, x.user, earnings, x.currency)]
              ELSE S3
    IN  IF fail = "put" THEN Out(S, "false")
        ELSE IF fail = "link" THEN Out(S1, "false")
        ELSE IF fail = "pending" /\ account = "" /\ earnings > 0 THEN Out(S2, "false")
        ELSE IF fail = "earnings" /\ earnings > 0 THEN Out(S3, "false")
        ELSE Out(S4, "true")

credit(S, x, pid, account, now, tbl, fail) ==
    LET earnings == earnings_from_base_amount(x)
        S1 == [S EXCEPT !.tx = put(@, Row(x, pid, "succeeded", account, now))]
        S2 == [S1 EXCEPT ![tbl] = add_payment_result(@, x.link, earnings, x.amount)]
        S3 == IF account = "" /\ earnings > 0
              THEN [S2 EXCEPT !.acc = add_pending_earnings(@, x.user, earnings, x.currency)]
              ELSE S2
        S4 == IF earnings > 0
              THEN [S3 EXCEPT !.acc = add_earnings(@, x.user, earnings, x.currency)]
              ELSE S3
    IN  IF fail = "put" THEN Out(S, "false")
        ELSE IF fail = "link" \/ earnings < 0 \/ x.amount < 0 THEN Out(S1, "false")
        ELSE IF fail = "pending" /\ account = "" /\ earnings > 0 THEN Out(S2, "false")
        ELSE IF fail = "earnings" /\ earnings > 0 THEN Out(S3, "false")
        ELSE Out(S4, "true")

\* handle_payment_succeeded(event_type, data, account_id)
handle_payment_succeeded(S, ev, now) ==
    LET ex == extract_from_payment_intent(ev)
    IN  IF ex = <<>> THEN Out(S, "false")
        ELSE LET x == ex[1]
                 pid == PiId(ev.id)
             IN  IF ev.fail = "lookup" THEN Out(S, "raise")
                 ELSE IF get_by_payment_intent_id(S.tx, x.user, pid) # {}
                 THEN Out(S, "true")
                 ELSE IF x.base = <<>> THEN Out(S, "raise")
                 ELSE credit(S, x, pid, ev.account, now, "pl", ev.fail)

\* variant: the attempted amount is also added to the link's total
handle_payment_failed_counted(S, ev, now) ==
    LET ex == extract_minimal_for_failed(ev)
    IN  IF ex = <<>> THEN Out(S, "false")
        ELSE IF ev.fail = "put" THEN Out(S, "false")
        ELSE Out([S EXCEPT !.tx = put(@, Row(ex[1], PiId(ev.id), "failed",
                                             ev.account, now)),
                           !.pl = add_payment_result(@, ex[1].link, 0, ex[1].amount)],
                 "true")

\* handle_payment_failed(event_type, data, account_id)
handle_payment_failed(S, ev, now) ==
    LET ex == extract_minimal_for_failed(ev)
    IN  IF ex = <<>> THEN Out(S, "false")
        ELSE IF ev.fail = "put" THEN Out(S, "false")
        ELSE Out([S EXCEPT !.tx = put(@, Row(ex[1], PiId(ev.id), "failed",
                                             ev.account, now))], "true")

\* the payment id of an invoice: its payment intent, else the invoice id
invoice_payment_id(ev) ==
    IF ev.payment_intent # 0 THEN PiId(ev.payment_intent) ELSE InId(ev.id)

\* _invoice_metadata: the subscription's metadata, else the first line's
invoice_metadata(ev) ==
    IF ev.metadata # NoMeta THEN ev.metadata ELSE ev.line_metadata

\* the id of the subscription an invoice belongs to
invoice_subscription_id(ev) == IF ev.subscription THEN <<"sub", ev.id>> ELSE <<>>

\* StripeSubscriptionsService.upsert_from_invoice_paid: the subscriber row of
\* the first paid invoice of a subscription, keyed by the subscription id;
\* the link rows of this model carry no owner to fall back on
upsert_from_invoice_paid(subs, ev) ==
    IF ev.billing_reason # "subscription_create" THEN subs
    ELSE IF invoice_subscription_id(ev) = <<>> THEN subs
    ELSE IF invoice_metadata(ev).user = "" THEN subs
    ELSE {r \in subs : r.subscription_id # invoice_subscription_id(ev)}
             \cup {[subscription_id |-> invoice_subscription_id(ev),
                    user |-> invoice_metadata(ev).user]}

\* variant: only the first invoice of a subscription is credited
handle_invoice_paid_creation_only(S, ev, now) ==
    LET e == extract_from_invoice(ev, S.sub)
        Sx == [S EXCEPT !.sub = e.sub]
    IN  IF e.res = <<>> \/ ev.billing_reason # "subscription_create"
        THEN Out(Sx, "false")
        ELSE LET x == e.res[1]
                 pid == invoice_payment_id(ev)
             IN  IF ev.fail = "lookup" THEN Out(Sx, "raise")
                 ELSE IF get_by_payment_intent_id(S.tx, x.user, pid) # {}
                 THEN Out(Sx, "true")
                 ELSE IF x.base = <<>> THEN Out(Sx, "raise")
                 ELSE credit(Sx, x, pid, ev.account, now, "sl", ev.fail)

\* handle_invoice_paid(data, account_id); billing_reason is not read
handle_invoice_paid(S, ev, now) ==
    LET e == extract_from_invoice(ev, S.sub)
        Sx == [S EXCEPT !.sub = e.sub]
    IN  IF e.res = <<>> THEN Out(Sx, "false")
        ELSE LET x == e.res[1]
                 pid == invoice_payment_id(ev)
             IN  IF ev.fail = "lookup" THEN Out(Sx, "raise")
                 ELSE IF get_by_payment_intent_id(S.tx, x.user, pid) # {}
                 THEN Out(Sx, "true")
                 ELSE IF x.base = <<>> THEN Out(Sx, "raise")
                 ELSE credit(Sx, x, pid, ev.account, now, "sl", ev.fail)

----------------------------------------------------------------------------
(* Account status (stripe_webhook.py, routes/platform.py) *)

\* the id the processor gives the account it creates for a user
acct_id_of(u) == CASE u = "u1" -> "acct_u1" [] OTHER -> "acct_u2"

\* stripe_account_id.startswith("acct_")
is_acct_id(sid) == sid \in {"acct_u1", "acct_u2", "acct_zz"}

AccountOut(S, ret, wrote, swept, attempts) ==
    [store |-> S, ret |-> ret, wrote |-> wrote, swept |-> swept,
     attempts |-> attempts]

\* lines 70-75 of handle_account_updated: the status to write, "" for none
\* variant: RESTRICTED from any status when the flags are not both true
new_status_unguarded(status, details_submitted, charges_enabled) ==
    IF details_submitted /\ charges_enabled THEN StatusVERIFIED
    ELSE StatusRESTRICTED

\* variant: VERIFIED as soon as one of the two flags is true
new_status_either_flag(status, details_submitted, charges_enabled) ==
    IF details_submitted \/ charges_enabled THEN StatusVERIFIED
    ELSE IF status = StatusNEW THEN StatusRESTRICTED
    ELSE ""

new_status(status, details_submitted, charges_enabled) ==
    IF details_submitted /\ charges_enabled THEN StatusVERIFIED
    ELSE IF status = StatusNEW THEN StatusRESTRICTED
    ELSE ""

\* lines 89-125 of handle_account_updated: one transfer per positive pending
\* currency, then the transferred currencies are removed
sweep(S, user, transfer_ok) ==
    LET pending == get_pending_earnings(S.acc, user)
        attempts == {<<c, pending[c], c \in transfer_ok>> : c \in DOMAIN pending}
        transferred == {c \in DOMAIN pending : c \in transfer_ok}
    IN  [store |-> IF transferred # {}
                   THEN [S EXCEPT !.acc = clear_pending_earnings(@, user, transferred)]
                   ELSE S,
         attempts |-> attempts]

\* handle_account_updated(data)
\* variant: without the early return of line 77 when the status is unchanged
handle_account_updated_no_skip(S, ev) ==
    IF ~is_acct_id(ev.id) THEN AccountOut(S, "false", FALSE, FALSE, {})
    ELSE
    LET found == get_by_stripe_account_id(S.acc, ev.id)
    IN
    IF found = {} THEN AccountOut(S, "false", FALSE, FALSE, {})
    ELSE
    LET user == CHOOSE u \in found : TRUE
        record == S.acc[user]
        target == new_status(record.status, ev.details_submitted, ev.charges_enabled)
    IN
    IF target = ""
    THEN AccountOut(S, "true", FALSE, FALSE, {})
    ELSE
    LET S1 == [S EXCEPT !.acc = update_status(@, user, target)]
    IN  IF target = StatusVERIFIED
        THEN LET sw == sweep(S1, user, ev.transfer_ok)
             IN  AccountOut(sw.store, "true", TRUE, TRUE, sw.attempts)
        ELSE AccountOut(S1, "true", TRUE, FALSE, {})

handle_account_updated(S, ev) ==
    IF ~is_acct_id(ev.id) THEN AccountOut(S, "false", FALSE, FALSE, {})
    ELSE
    LET found == get_by_stripe_account_id(S.acc, ev.id)
    IN
    IF found = {} THEN AccountOut(S, "false", FALSE, FALSE, {})
    ELSE
    LET user == CHOOSE u \in found : TRUE
        record == S.acc[user]
        target == new_status(record.status, ev.details_submitted, ev.charges_enabled)
    IN
    IF target = "" \/ target = record.status
    THEN AccountOut(S, "true", FALSE, FALSE, {})
    ELSE
    LET S1 == [S EXCEPT !.acc = update_status(@, user, target)]
    IN  IF target = StatusVERIFIED
        THEN LET sw == sweep(S1, user, ev.transfer_ok)
             IN  AccountOut(sw.store, "true", TRUE, TRUE, sw.attempts)
        ELSE AccountOut(S1, "true", TRUE, FALSE, {})

\* create_connected_account (POST /platform/connected-accounts)
create_connected_account(S, user, valid, stripe_ok) ==
    LET account == S.acc[user]
    IN  IF account.exists /\ account.stripe_account_id # "" THEN Out(S, "true")
        ELSE IF ~valid \/ ~stripe_ok THEN Out(S, "raise")
        ELSE IF account.exists
        THEN Out([S EXCEPT !.acc = update_stripe_account_id(@, user, acct_id_of(user))],
                 "true")
        ELSE Out([S EXCEPT !.acc = create(@, user, acct_id_of(user))], "true")

\* require_principal(*allowed): the caller has an account whose status is
\* one of the allowed ones, 403 otherwise
principal_allowed(S, user, allowed) ==
    S.acc[user].exists /\ S.acc[user].status \in allowed

SweepOut(S, ret, swept, attempts, pending) ==
    [store |-> S, ret |-> ret, swept |-> swept, attempts |-> attempts,
     pending |-> pending]

\* variant: every pending currency is cleared as soon as one transfer succeeded
transfer_pending_earnings_clear_all(S, user, pending, transfer_ok) ==
    LET attempts == {<<c, pending[c], c \in transfer_ok>> : c \in DOMAIN pending}
        transferred == {c \in DOMAIN pending : c \in transfer_ok}
        failed == (DOMAIN pending) \ transferred
        S1 == IF transferred # {}
              THEN [S EXCEPT !.acc = clear_pending_earnings(@, user, {})]
              ELSE S
    IN  SweepOut(S1, IF failed # {} THEN "in_progress" ELSE "settled", TRUE,
                 attempts, get_pending_earnings(S1.acc, user))

\* _transfer_pending_earnings: one create_transfer per positive pending
\* currency, the transferred ones removed, the pending map read again
transfer_pending_earnings(S, user, pending, transfer_ok) ==
    LET attempts == {<<c, pending[c], c \in transfer_ok>> : c \in DOMAIN pending}
        transferred == {c \in DOMAIN pending : c \in transfer_ok}
        failed == (DOMAIN pending) \ transferred
        S1 == IF transferred # {}
              THEN [S EXCEPT !.acc = clear_pending_earnings(@, user, transferred)]
              ELSE S
    IN  SweepOut(S1, IF failed # {} THEN "in_progress" ELSE "settled", TRUE,
                 attempts, get_pending_earnings(S1.acc, user))

\* variant: the account route without the status check of its principal
get_account_unchecked(S, user, transfer_ok) ==
    LET pending == get_pending_earnings(S.acc, user)
    IN  IF DOMAIN pending # {}
        THEN transfer_pending_earnings(S, user, pending, transfer_ok)
        ELSE SweepOut(S, "settled", FALSE, {}, pending)

\* get_account (GET /accounts/account)
get_account(S, user, transfer_ok) ==
    IF ~principal_allowed(S, user, {StatusNEW, StatusRESTRICTED, StatusVERIFIED})
    THEN SweepOut(S, "403", FALSE, {}, EmptyMap)
    ELSE LET pending == get_pending_earnings(S.acc, user)
         IN  IF DOMAIN pending # {}
             THEN transfer_pending_earnings(S, user, pending, transfer_ok)
             ELSE SweepOut(S, "settled", FALSE, {}, pending)

\* the outcomes of create_payouts_from_available_balance
PayoutResults == {"raise", "none", "failed", "transferred", "partial"}

\* create_payouts (POST /transfers/payouts)
create_payouts(S, user, result) ==
    IF ~principal_allowed(S, user, {StatusVERIFIED}) THEN Out(S, "403")
    ELSE IF ~is_acct_id(S.acc[user].stripe_account_id) THEN Out(S, "400")
    ELSE IF result = "raise" THEN Out(S, "raise")
    ELSE IF result = "failed" THEN Out(S, "502")
    ELSE IF result = "none" THEN Out(S, "no_balance")
    ELSE Out([S EXCEPT !.acc = clear_pending_earnings(@, user, {})], "success")

\* StripePaymentLinkFactory.get_link_service(principal): the settlement
\* target of a new link.  The VERIFIED branch is commented out in the source
\* (lines 19-21), every principal gets the platform service (line 22).
get_link_service(S, user) == "platform"

----------------------------------------------------------------------------
(* Link creation (routes/payment_links.py, routes/subscriptions.py).  A link
   record is [table, link_id, user, status, stripe_payment_link_id,
   on_platform]; link_id stands for the uuid4 drawn by the route. *)

LinkTables == {"payment_links", "subscriptions"}

\* PaymentLinksRepository / SubscriptionsRepository.create_draft
create_draft(items, table, link_id, user) ==
    {r \in items : ~(r.table = table /\ r.link_id = link_id)}
        \cup {[table |-> table, link_id |-> link_id, user |-> user,
               status |-> "ACTIVE", stripe_payment_link_id |-> <<>>,
               on_platform |-> FALSE]}

\* update_with_stripe
update_with_stripe(items, table, link_id, sid, on_platform) ==
    {IF r.table = table /\ r.link_id = link_id
     THEN [r EXCEPT !.stripe_payment_link_id = <<sid>>,
                    !.on_platform = on_platform \/ @]
     ELSE r : r \in items}

\* list_expired_candidates at a time when the rows of due have expired
list_expired_candidates(items, table, due) ==
    {r \in items : r.table = table /\ r.status = "ACTIVE" /\ r \in due}

\* mark_expired
mark_expired(items, table, link_id) ==
    {IF r.table = table /\ r.link_id = link_id
     THEN [r EXCEPT !.status = "EXPIRED"]
     ELSE r : r \in items}

\* one pass of the loop of expire_links.handler over a candidate: the
\* processor link is disabled (on the platform, or on the seller's account
\* when the seller has one) and the row marked; a draft has no
\* stripe_payment_link_id to read; any exception leaves the row as it is
disable_raises(S, r, failed) ==
    (r.on_platform \/ S.acc[r.user].exists)
        /\ (r.stripe_payment_link_id = <<>> \/ r \in failed)

RECURSIVE expire_each(_, _, _, _)
expire_each(S, items, candidates, failed) ==
    IF candidates = {} THEN items
    ELSE LET r == CHOOSE x \in candidates : TRUE
             marked == IF disable_raises(S, r, failed) THEN items
                       ELSE mark_expired(items, r.table, r.link_id)
         IN  expire_each(S, marked, candidates \ {r}, failed)

\* expire_links.handler: the expired payment links, then the expired
\* subscription links; returns the lengths of the two candidate lists
expire_links(S, items, due, failed) ==
    LET expired_links == list_expired_candidates(items, "payment_links", due)
        items1 == expire_each(S, items, expired_links, failed)
        expired_subs == list_expired_candidates(items1, "subscriptions", due)
        items2 == expire_each(S, items1, expired_subs, failed)
    IN  [items |-> items2,
         result |-> [expired_links |-> Cardinality(expired_links),
                     expired_subscriptions |-> Cardinality(expired_subs)]]

\* what the processor and the second table write do during one creation
LinkOutcomes == {"ok", "stripe_error", "update_error"}

LinkOut(items, ret) == [items |-> items, ret |-> ret]

\* create_payment_link / create_subscription_link: the draft, the processor
\* call (StripeError gives 400), the update with the processor's id (an
\* exception gives 500)
create_link(S, items, table, user, link_id, outcome) ==
    IF ~principal_allowed(S, user, {StatusNEW, StatusRESTRICTED, StatusVERIFIED})
    THEN LinkOut(items, "403")
    ELSE LET drafted == create_draft(items, table, link_id, user)
         IN  CASE outcome = "stripe_error" -> LinkOut(drafted, "400")
               [] outcome = "update_error" -> LinkOut(drafted, "500")
               [] OTHER ->
                   LinkOut(update_with_stripe(drafted, table, link_id, link_id,
                               get_link_service(S, user) = "platform"), "200")

----------------------------------------------------------------------------
(* Events delivered to the handlers *)

FullMeta(b) == [user |-> "u1", link |-> "l1", base |-> b]

PiEvent(kind, id, meta, received, amount, cur, created, account) ==
    [kind |-> kind, id |-> id, metadata |-> meta, amount_received |-> received,
     amount |-> amount, currency |-> cur, created |-> created,
     account |-> account, subscription |-> FALSE, line_metadata |-> NoMeta,
     payment_intent |-> 0, sub_ok |-> FALSE, pi_ok |-> FALSE,
     pi_metadata |-> NoMeta, mod_ok |-> FALSE, fail |-> ""]

\* an invoice: amount_received holds amount_paid
InvEvent(id, meta, line, paid, cur, created, account, pi, sub_ok, pi_meta, mod_ok) ==
    [kind |-> INVOICE_PAID, id |-> id, metadata |-> meta, amount_received |-> paid,
     amount |-> paid, currency |-> cur, created |-> created,
     account |-> account, subscription |-> TRUE, line_metadata |-> line,
     payment_intent |-> pi, sub_ok |-> sub_ok, pi_ok |-> TRUE,
     pi_metadata |-> pi_meta, mod_ok |-> mod_ok, fail |-> "",
     billing_reason |-> "subscription_create"]

\* invoice.billing_reason: the first invoice of a subscription, a renewal
BillingReasons == {"subscription_create", "subscription_cycle"}

AccountIds == {"", "acct_u1"}

\* a payment object has one currency
CurrencyOf(id) == IF id = 1 THEN "gbp" ELSE "usd"

\* well-formed payments of the three kinds
CoreEvents ==
    {PiEvent(PAYMENT_SUCCEEDED, id, FullMeta(<<2>>), 5, 5, CurrencyOf(id), cr, a) :
        id \in Ids, cr \in {0, 1}, a \in AccountIds}
    \cup
    {PiEvent(PAYMENT_FAILED, id, FullMeta(<<2>>), 0, 5, CurrencyOf(id), cr, "") :
        id \in Ids, cr \in {0, 1}}
    \cup
    UNION {{[InvEvent(id, FullMeta(<<2>>), NoMeta, 5, CurrencyOf(id), 1, a, pi,
                      TRUE, NoMeta, TRUE) EXCEPT !.billing_reason = b] :
               a \in AccountIds, pi \in {0, id}, b \in BillingReasons} : id \in Ids}

\* base_amount metadata missing, zero or negative
BaseEvents ==
    {PiEvent(PAYMENT_SUCCEEDED, 1, FullMeta(b), 5, 5, "gbp", 1, a) :
        b \in {<<>>, <<0>>, <<-1>>}, a \in AccountIds}
    \cup
    {InvEvent(1, NoMeta, FullMeta(b), 5, "gbp", 1, "", 1, TRUE, NoMeta, TRUE) :
        b \in {<<>>, <<0>>, <<-1>>}}

PartialMetas ==
    {NoMeta, [user |-> "u1", link |-> "", base |-> <<2>>],
     [user |-> "", link |-> "l1", base |-> <<2>>]}

\* user_id or link_id metadata missing everywhere
MetaEvents ==
    {PiEvent(k, 1, m, 5, 5, "gbp", 1, "") :
        k \in {PAYMENT_SUCCEEDED, PAYMENT_FAILED}, m \in PartialMetas}
    \cup
    {InvEvent(1, m, m, 5, "gbp", 1, "", 1, TRUE, m, TRUE) : m \in PartialMetas}

\* settled amount zero or negative, with and without a requested amount
AmountEvents ==
    {PiEvent(PAYMENT_SUCCEEDED, 1, FullMeta(<<2>>), r, am, "gbp", 1, "") :
        r \in {-1, 0}, am \in {0, 7}}
    \cup
    {InvEvent(1, FullMeta(<<2>>), NoMeta, r, "gbp", 1, "", 1, TRUE, NoMeta, TRUE) :
        r \in {-1, 0}}

\* invoices attributed through the subscription or the payment intent
FallbackEvents ==
    {InvEvent(1, NoMeta, NoMeta, 5, "gbp", 1, "", 1, ok, m, mod) :
        ok \in BOOLEAN, m \in {NoMeta, FullMeta(<<2>>)}, mod \in BOOLEAN}

\* the table call that raises while the event is handled: the existence
\* check, the Transaction write or one of the three increments
StorageCalls == {"lookup", "put", "link", "pending", "earnings"}

FailureEvents ==
    {[PiEvent(PAYMENT_SUCCEEDED, 2, FullMeta(<<2>>), 5, 5, "usd", 1, "")
         EXCEPT !.fail = f] : f \in StorageCalls}
    \cup
    {[InvEvent(2, FullMeta(<<2>>), NoMeta, 5, "usd", 1, "", 0, TRUE, NoMeta, TRUE)
         EXCEPT !.fail = f] : f \in {"lookup", "link"}}
    \cup
    {[PiEvent(PAYMENT_FAILED, 2, FullMeta(<<2>>), 0, 5, "usd", 1, "")
         EXCEPT !.fail = "put"]}

PaymentEvents ==
    CoreEvents \cup BaseEvents \cup MetaEvents \cup AmountEvents
        \cup FallbackEvents \cup FailureEvents

AccountEvents ==
    {[kind |-> ACCOUNT_UPDATED, id |-> "acct_u1", details_submitted |-> TRUE,
      charges_enabled |-> TRUE, transfer_ok |-> t] : t \in SUBSET Currencies}
    \cup
    {[kind |-> ACCOUNT_UPDATED, id |-> "acct_u1", details_submitted |-> d,
      charges_enabled |-> c, transfer_ok |-> Currencies] :
        d \in BOOLEAN, c \in BOOLEAN}
    \cup
    {[kind |-> ACCOUNT_UPDATED, id |-> sid, details_submitted |-> TRUE,
      charges_enabled |-> TRUE, transfer_ok |-> Currencies] :
        sid \in {"", "acct_zz"}}

----------------------------------------------------------------------------
(* Fee engine (services/fees.py).  Percentages are kept in tenths of a
   percent (29 is 2.9%), fee amounts in minor units; an optional argument
   that is None is <<>>. *)

\* round(x) of Python for x = k + n/d, d > 0: nearest integer, a tie to the
\* even one
round(k, n, d) ==
    LET q == k + (n \div d)
        r == n % d
    IN  IF 2 * r < d THEN q
        ELSE IF 2 * r > d THEN q + 1
        ELSE IF q % 2 = 0 THEN q ELSE q + 1

\* math.ceil(n / d) for d > 0
ceil(n, d) == -((-n) \div d)

USD_TIER_THRESHOLDS_CENTS ==
    <<1000, 2000, 5000, 10000, 50000, 100000, 500000, 1000000>>

USD_TIER_FEES_CENTS == <<40, 80, 200, 300, 1000, 2000, 4000, 6000, 10000>>

SupportedCurrencies == {"usd", "eur", "gbp", "bgn", "ron", "all"}

\* (currency or "usd").lower()
normalized_currency(currency) ==
    CASE currency = "" -> "usd"
      [] currency = "USD" -> "usd"
      [] OTHER -> currency

\* _USD_TO_CURRENCY_RATE.get(currency, 1.0), in hundredths
USD_TO_CURRENCY_RATE(currency) ==
    CASE currency = "usd" -> 100
      [] currency = "eur" -> 95
      [] currency = "gbp" -> 80
      [] currency = "bgn" -> 185
      [] currency = "ron" -> 470
      [] currency = "all" -> 9500
      [] OTHER -> 100

\* _round_up_fee_major; the fee is in 1/10000 of a major unit
round_up_fee_major(value) ==
    LET step == IF value < 10000 THEN 2000
                ELSE IF value < 50000 THEN 10000
                ELSE IF value < 200000 THEN 50000
                ELSE IF value < 500000 THEN 100000
                ELSE 200000
    IN  ceil(value, step) * step

\* the first tier whose threshold is not below the amount, else the last
tier_index(amount_cents) ==
    LET below == {i \in DOMAIN USD_TIER_THRESHOLDS_CENTS :
                     amount_cents <= USD_TIER_THRESHOLDS_CENTS[i]}
    IN  IF below = {} THEN Len(USD_TIER_FEES_CENTS)
        ELSE CHOOSE i \in below : \A j \in below : i <= j

\* variant: the top tier charges less than the one below it
tier_fixed_fee_falling(amount_cents, currency) ==
    LET fx == USD_TO_CURRENCY_RATE(normalized_currency(currency))
        i == tier_index(amount_cents)
        usd_fee_cents == IF i = Len(USD_TIER_FEES_CENTS) THEN 40
                         ELSE USD_TIER_FEES_CENTS[i]
    IN  round(0, round_up_fee_major(usd_fee_cents * fx), 100)

\* _tier_fixed_fee
tier_fixed_fee(amount_cents, currency) ==
    LET fx == USD_TO_CURRENCY_RATE(normalized_currency(currency))
        usd_fee_cents == USD_TIER_FEES_CENTS[tier_index(amount_cents)]
        converted_fee_major == usd_fee_cents * fx
        rounded_fee_major == round_up_fee_major(converted_fee_major)
    IN  round(0, rounded_fee_major, 100)

\* _multiplier: 1 / (1 - combined_pct / 100) as <<numerator, denominator>>,
\* <<>> when it raises ValueError
multiplier(service_fee_percent, stripe_fee_percent) ==
    LET combined_pct == service_fee_percent + stripe_fee_percent
    IN  IF combined_pct >= 1000 THEN <<>>
        ELSE <<1000, 1000 - combined_pct>>

FeeError == [err |-> "ValueError", total_cents |-> 0, service_fee_cents |-> 0,
             service_fee_percent |-> <<0, 1>>, stripe_fee_percent |-> 0]

\* variant: the fee is taken out of the amount
amount_with_fee_deducted(amount_cents, currency, fixed_fee, service_fee_percent, stripe_fee_percent, settings) ==
    IF amount_cents < 0 THEN FeeError
    ELSE
    LET fixed == IF fixed_fee = <<>> THEN tier_fixed_fee(amount_cents, currency)
                 ELSE fixed_fee[1]
        stripe_pct == IF stripe_fee_percent = <<>> THEN settings.stripe_fee_percent
                      ELSE stripe_fee_percent[1]
        m == multiplier(0, stripe_pct)
    IN  IF m = <<>> THEN FeeError
        ELSE [err |-> "",
              total_cents |-> round(0, (amount_cents - fixed) * m[1], m[2]),
              service_fee_cents |-> fixed, service_fee_percent |-> <<0, 1>>,
              stripe_fee_percent |-> stripe_pct]

\* variant: the platform's percentage is grossed up as well
amount_with_fee_service_markup(amount_cents, currency, fixed_fee, service_fee_percent, stripe_fee_percent, settings) ==
    IF amount_cents < 0 THEN FeeError
    ELSE
    LET fixed == IF fixed_fee = <<>> THEN tier_fixed_fee(amount_cents, currency)
                 ELSE fixed_fee[1]
        svc_pct == IF service_fee_percent = <<>> THEN settings.service_fee_percent
                   ELSE service_fee_percent[1]
        stripe_pct == IF stripe_fee_percent = <<>> THEN settings.stripe_fee_percent
                      ELSE stripe_fee_percent[1]
        m == multiplier(svc_pct, stripe_pct)
    IN  IF m = <<>> THEN FeeError
        ELSE [err |-> "",
              total_cents |-> round(0, (amount_cents + fixed) * m[1], m[2]),
              service_fee_cents |-> fixed, service_fee_percent |-> <<0, 1>>,
              stripe_fee_percent |-> stripe_pct]

\* amount_with_fee: service_fee_percent of the result is the ratio
\* <<service_fee_cents * 100, total_cents>>
amount_with_fee(amount_cents, currency, fixed_fee, service_fee_percent, stripe_fee_percent, settings) ==
    IF amount_cents < 0 THEN FeeError
    ELSE
    LET fixed == IF fixed_fee = <<>> THEN tier_fixed_fee(amount_cents, currency)
                 ELSE fixed_fee[1]
        svc_pct == 0
        stripe_pct == IF stripe_fee_percent = <<>> THEN settings.stripe_fee_percent
                      ELSE stripe_fee_percent[1]
        m == multiplier(svc_pct, stripe_pct)
    IN  IF m = <<>> THEN FeeError
        ELSE LET total_cents == round(0, (amount_cents + fixed) * m[1], m[2])
             IN  [err |-> "", total_cents |-> total_cents,
                  service_fee_cents |-> fixed,
                  service_fee_percent |->
                      IF total_cents > 0 THEN <<fixed * 100, total_cents>>
                      ELSE <<0, 1>>,
                  stripe_fee_percent |-> stripe_pct]

\* base_amount_from_total: <<>> when it raises ValueError
base_amount_from_total(total_cents, settings) ==
    IF total_cents < 0 THEN <<>>
    ELSE
    LET m == multiplier(settings.service_fee_percent, settings.stripe_fee_percent)
    IN  IF m = <<>> THEN <<>>
        ELSE <<round((total_cents \div m[1]) * m[2] - settings.fixed_fee,
                     (total_cents % m[1]) * m[2], m[1])>>

\* amount_with_subscription_fee: the total, the effective service percentage
\* and the processor's percentage of amount_with_fee
amount_with_subscription_fee(amount_cents, currency, settings) ==
    LET q == amount_with_fee(amount_cents, currency, <<>>, <<>>, <<>>, settings)
    IN  IF q = FeeError THEN FeeError
        ELSE [err |-> "", total_cents |-> q.total_cents,
              service_fee_percent |-> q.service_fee_percent,
              stripe_fee_percent |-> q.stripe_fee_percent]

\* core/settings.py: FIXED_FEE 50, SERVICE_FEE_PERCENT 5.0, stripe_fee_percent 0.0
default_settings ==
    [fixed_fee |-> 50, service_fee_percent |-> 50, stripe_fee_percent |-> 0]

\* models/payment.py: Currency
LinkCurrencies == {"usd", "eur", "gbp"}

\* what the routes send to the processor for a new link: the quote of
\* amount_with_fee(payload.amount) or amount_with_subscription_fee(
\* payload.amount), called without a currency and so with their default
\* "gbp", as unit_amount; payload.currency; str(payload.amount) as the
\* base_amount metadata
link_request(table, amount, currency) ==
    LET q == IF table = "subscriptions"
             THEN amount_with_subscription_fee(amount, "gbp", default_settings)
             ELSE amount_with_fee(amount, "gbp", <<>>, <<>>, <<>>, default_settings)
    IN  [unit_amount |-> q.total_cents, currency |-> currency,
         base_amount |-> <<amount>>]

----------------------------------------------------------------------------
(* State *)

Store ==
    [tx |-> transactions, pl |-> payment_links, sl |-> subscription_links,
     acc |-> stripe_accounts, sub |-> sub_metadata,
     subs |-> stripe_subscriptions]

SetStore(S) ==
    /\ transactions' = S.tx
    /\ payment_links' = S.pl
    /\ subscription_links' = S.sl
    /\ stripe_accounts' = S.acc
    /\ sub_metadata' = S.sub
    /\ stripe_subscriptions' = S.subs

\* no call of the fee engine
NoQuote == [stage |-> "idle"]

ZeroLink == [earnings_amount |-> 0, total_amount_paid |-> 0]

NoEvent == [kind |-> ""]

\* _handle_stripe_webhook after the signature check: 200 once _dispatch_event
\* has returned; an exception of the handler is not caught and the framework
\* answers 500
webhook_response(ret) == IF ret = "raise" THEN "500" ELSE "200"

Call(op, ev, ret) ==
    [op |-> op, ev |-> ev, ret |-> ret, wrote |-> FALSE, swept |-> FALSE,
     attempts |-> {}, replayed |-> FALSE, ret2 |-> "", pending |-> EmptyMap,
     http |-> webhook_response(ret), http2 |-> "", out |-> <<>>]

\* the processor object an event is about
ObjectOf(ev) == IF ev.kind = INVOICE_PAID THEN InId(ev.id) ELSE PiId(ev.id)

Objects == {PiId(n) : n \in Ids} \cup {InId(n) : n \in Ids}

\* an object keeps its created timestamp over all its deliveries
CreatedConsistent(ev) ==
    created_of[ObjectOf(ev)] \in {-1, ev.created}

\* the tables when the service starts
InitStore ==
    /\ transactions = {}
    /\ payment_links = [l \in LinkIds |-> ZeroLink]
    /\ subscription_links = [l \in LinkIds |-> ZeroLink]
    /\ stripe_accounts = [u \in Users |-> NoAccount]
    /\ sub_metadata = NoMeta
    /\ stripe_subscriptions = {}
    /\ today = 1
    /\ created_of = [o \in Objects |-> -1]
    /\ calls = 0
    /\ pre = Store
    /\ last = Call("", NoEvent, "")
    /\ procs = <<>>
    /\ link_items = {}

Init ==
    /\ InitStore
    /\ quote = NoQuote

Handle(ev) ==
    CASE ev.kind = PAYMENT_SUCCEEDED -> handle_payment_succeeded(Store, ev, today)
      [] ev.kind = PAYMENT_FAILED -> handle_payment_failed(Store, ev, today)
      [] OTHER -> handle_invoice_paid(Store, ev, today)

\* _dispatch_event for one payment event drawn from E
Deliver(E, limit) ==
    \E ev \in E :
        /\ calls < limit
        /\ CreatedConsistent(ev)
        /\ LET r == Handle(ev)
           IN  /\ SetStore(r.store)
               /\ last' = Call(ev.kind, ev, r.ret)
        /\ pre' = Store
        /\ created_of' = [created_of EXCEPT ![ObjectOf(ev)] = ev.created]
        /\ calls' = calls + 1
        /\ UNCHANGED <<today, procs, quote, link_items>>

\* the processor delivers the last payment event once more
Redeliver ==
    /\ calls < MaxCalls
    /\ last.op \in {PAYMENT_SUCCEEDED, PAYMENT_FAILED, INVOICE_PAID}
    /\ ~last.replayed
    /\ LET r == Handle([last.ev EXCEPT !.fail = ""])
       IN  /\ SetStore(r.store)
           /\ last' = [last EXCEPT !.replayed = TRUE, !.ret2 = r.ret,
                                    !.http2 = webhook_response(r.ret)]
    /\ calls' = calls + 1
    /\ UNCHANGED <<today, created_of, pre, procs, quote, link_items>>

\* _dispatch_event for account.updated
DeliverAccountUpdated(limit) ==
    \E ev \in AccountEvents :
        /\ calls < limit
        /\ LET r == handle_account_updated(Store, ev)
           IN  /\ SetStore(r.store)
               /\ last' = [Call(ACCOUNT_UPDATED, ev, r.ret) EXCEPT
                              !.wrote = r.wrote, !.swept = r.swept,
                              !.attempts = r.attempts]
        /\ pre' = Store
        /\ calls' = calls + 1
        /\ UNCHANGED <<today, created_of, procs, quote, link_items>>

PostConnectedAccount(limit) ==
    \E u \in Users, valid \in BOOLEAN, stripe_ok \in BOOLEAN :
        /\ calls < limit
        /\ LET r == create_connected_account(Store, u, valid, stripe_ok)
           IN  /\ SetStore(r.store)
               /\ last' = Call("create_connected_account",
                               [kind |-> "create_connected_account", user |-> u,
                                valid |-> valid, stripe_ok |-> stripe_ok], r.ret)
        /\ pre' = Store
        /\ calls' = calls + 1
        /\ UNCHANGED <<today, created_of, procs, quote, link_items>>

\* GET /accounts/account by a signed-in seller
GetAccount(limit) ==
    \E u \in Users, t \in SUBSET Currencies :
        /\ calls < limit
        /\ LET r == get_account(Store, u, t)
           IN  /\ SetStore(r.store)
               /\ last' = [Call("get_account",
                                [kind |-> "get_account", user |-> u,
                                 transfer_ok |-> t], r.ret) EXCEPT
                              !.swept = r.swept, !.attempts = r.attempts,
                              !.pending = r.pending]
        /\ pre' = Store
        /\ calls' = calls + 1
        /\ UNCHANGED <<today, created_of, procs, quote, link_items>>

\* POST /transfers/payouts by a signed-in seller
PostPayouts(limit) ==
    \E u \in Users, result \in PayoutResults :
        /\ calls < limit
        /\ LET r == create_payouts(Store, u, result)
           IN  /\ SetStore(r.store)
               /\ last' = Call("create_payouts",
                               [kind |-> "create_payouts", user |-> u,
                                result |-> result], r.ret)
        /\ pre' = Store
        /\ calls' = calls + 1
        /\ UNCHANGED <<today, created_of, procs, quote, link_items>>

\* a signed-in seller creates a link: the factory picks the settlement target
ChooseLinkService(limit) ==
    \E u \in Users :
        /\ calls < limit
        /\ last' = Call("get_link_service",
                        [kind |-> "get_link_service", user |-> u],
                        get_link_service(Store, u))
        /\ pre' = Store
        /\ calls' = calls + 1
        /\ UNCHANGED <<transactions, payment_links, subscription_links,
                       stripe_accounts, sub_metadata, stripe_subscriptions, today, created_of, procs, quote, link_items>>

\* midnight UTC passes
Tick ==
    /\ today < MaxDay
    /\ today' = today + 1
    /\ UNCHANGED <<transactions, payment_links, subscription_links,
                   stripe_accounts, sub_metadata, stripe_subscriptions, created_of, calls, pre, last,
                   procs, quote, link_items>>

PaymentEvent == Deliver(PaymentEvents, MaxCalls)

AccountUpdated == DeliverAccountUpdated(MaxCalls)

CreateConnectedAccount == PostConnectedAccount(MaxCalls)

AccountRoute == GetAccount(MaxCalls)

CreatePayouts == PostPayouts(MaxCalls)

Next ==
    \/ PaymentEvent
    \/ Redeliver
    \/ AccountUpdated
    \/ CreateConnectedAccount
    \/ AccountRoute
    \/ CreatePayouts
    \/ Tick

Spec == Init /\ [][Next]_vars

----------------------------------------------------------------------------
(* SpecAccount: the account life cycle with platform-held and connected     *)
(* payments, over longer runs                                               *)

SettledEvents ==
    {PiEvent(PAYMENT_SUCCEEDED, id, FullMeta(<<2>>), 5, 5, CurrencyOf(id), 1, a) :
        id \in Ids, a \in AccountIds}

SettledPayment == Deliver(SettledEvents, MaxAccountCalls)

AccountUpdatedA == DeliverAccountUpdated(MaxAccountCalls)

CreateConnectedAccountA == PostConnectedAccount(MaxAccountCalls)

GetAccountA == GetAccount(MaxAccountCalls)

CreatePayoutsA == PostPayouts(MaxAccountCalls)

GetLinkServiceA == ChooseLinkService(MaxAccountCalls)

NextAccount ==
    \/ SettledPayment
    \/ AccountUpdatedA
    \/ CreateConnectedAccountA
    \/ GetAccountA
    \/ CreatePayoutsA
    \/ GetLinkServiceA

SpecAccount == Init /\ [][NextAccount]_vars

----------------------------------------------------------------------------
(* Concurrent handlers.  Each webhook delivery runs handle_payment_succeeded
   in its own invocation; the table calls of one invocation interleave with
   those of the others.  One action per table call of lines 359-409. *)

MaxProcs == 2

ConcEvents ==
    {PiEvent(PAYMENT_SUCCEEDED, id, FullMeta(<<2>>), 5, 5, "gbp", 1, "")
        : id \in Ids}

Proc(ev, pc, ret) == [ev |-> ev, pc |-> pc, ret |-> ret]

Extracted(p) == extract_from_payment_intent(procs[p].ev)[1]

Goto(p, pc, ret) == procs' = [procs EXCEPT ![p] = Proc(@.ev, pc, ret)]

\* the webhook route hands an event to a new invocation
Arrive ==
    /\ Len(procs) < MaxProcs
    /\ \E ev \in ConcEvents : procs' = Append(procs, Proc(ev, "lookup", ""))
    /\ UNCHANGED <<transactions, payment_links, subscription_links,
                   stripe_accounts, sub_metadata, stripe_subscriptions, today, created_of, calls,
                   pre, last, quote, link_items>>

\* lines 345-362: extraction and the existence check
Lookup ==
    \E p \in 1..Len(procs) :
        /\ procs[p].pc = "lookup"
        /\ IF extract_from_payment_intent(procs[p].ev) = <<>>
           THEN Goto(p, "done", "false")
           ELSE IF get_by_payment_intent_id(transactions, Extracted(p).user,
                                            PiId(procs[p].ev.id)) # {}
                THEN Goto(p, "done", "true")
                ELSE Goto(p, "put", "")
        /\ UNCHANGED <<transactions, payment_links, subscription_links,
                       stripe_accounts, sub_metadata, stripe_subscriptions, today, created_of, calls,
                       pre, last, quote, link_items>>

\* lines 384-396: the Transaction write
PutTransaction ==
    \E p \in 1..Len(procs) :
        /\ procs[p].pc = "put"
        /\ transactions' = put(transactions,
               Row(Extracted(p), PiId(procs[p].ev.id), "succeeded",
                   procs[p].ev.account, today))
        /\ Goto(p, "link", "")
        /\ UNCHANGED <<payment_links, subscription_links, stripe_accounts,
                       sub_metadata, stripe_subscriptions, today, created_of, calls, pre, last, quote, link_items>>

\* lines 397-401: the link aggregates
AddPaymentResult ==
    \E p \in 1..Len(procs) :
        /\ procs[p].pc = "link"
        /\ payment_links' = add_payment_result(payment_links, Extracted(p).link,
               earnings_from_base_amount(Extracted(p)), Extracted(p).amount)
        /\ Goto(p, "pending", "")
        /\ UNCHANGED <<transactions, subscription_links, stripe_accounts,
                       sub_metadata, stripe_subscriptions, today, created_of, calls, pre, last, quote, link_items>>

\* lines 402-405: pending earnings of a platform-held payment
AddPendingEarnings ==
    \E p \in 1..Len(procs) :
        /\ procs[p].pc = "pending"
        /\ stripe_accounts' =
               IF procs[p].ev.account = "" /\ earnings_from_base_amount(Extracted(p)) > 0
               THEN add_pending_earnings(stripe_accounts, Extracted(p).user,
                        earnings_from_base_amount(Extracted(p)), Extracted(p).currency)
               ELSE stripe_accounts
        /\ Goto(p, "earnings", "")
        /\ UNCHANGED <<transactions, payment_links, subscription_links,
                       sub_metadata, stripe_subscriptions, today, created_of, calls, pre, last, quote, link_items>>

\* lines 406-409 and 415: lifetime earnings, then return true
AddEarnings ==
    \E p \in 1..Len(procs) :
        /\ procs[p].pc = "earnings"
        /\ stripe_accounts' =
               IF earnings_from_base_amount(Extracted(p)) > 0
               THEN add_earnings(stripe_accounts, Extracted(p).user,
                        earnings_from_base_amount(Extracted(p)), Extracted(p).currency)
               ELSE stripe_accounts
        /\ Goto(p, "done", "true")
        /\ UNCHANGED <<transactions, payment_links, subscription_links,
                       sub_metadata, stripe_subscriptions, today, created_of, calls, pre, last, quote, link_items>>

NextConc ==
    \/ Arrive
    \/ Lookup
    \/ PutTransaction
    \/ AddPaymentResult
    \/ AddPendingEarnings
    \/ AddEarnings

SpecConc == Init /\ [][NextConc]_vars

----------------------------------------------------------------------------
(* SpecSweep: the sweep of pending earnings and the status write of
   handle_account_updated, and the sweep of GET /accounts/account, as
   interleaved table and processor calls, next to the handler of one
   platform-held payment.  The seller has a connected account; an earlier
   platform-held payment may have left pending earnings. *)

MaxSweeps == 2

SweepSeller == "u1"

EmptyStore ==
    [tx |-> {}, pl |-> [l \in LinkIds |-> ZeroLink],
     sl |-> [l \in LinkIds |-> ZeroLink],
     acc |-> [u \in Users |-> NoAccount], sub |-> NoMeta, subs |-> {}]

EarlierPayment == PiEvent(PAYMENT_SUCCEEDED, 1, FullMeta(<<2>>), 5, 5, "gbp", 1, "")

ConcurrentPayment == PiEvent(PAYMENT_SUCCEEDED, 2, FullMeta(<<2>>), 5, 5, "gbp", 1, "")

AccountEvent(d, c, t) ==
    [kind |-> ACCOUNT_UPDATED, id |-> acct_id_of(SweepSeller),
     details_submitted |-> d, charges_enabled |-> c, transfer_ok |-> t]

\* the stores reached by creating the connected account, one account.updated
\* event or none, and one platform-held payment or none
SweepStores ==
    LET created == create_connected_account(EmptyStore, SweepSeller, TRUE, TRUE).store
        statuses == {created,
                     handle_account_updated(created, AccountEvent(FALSE, FALSE, {})).store,
                     handle_account_updated(created, AccountEvent(TRUE, TRUE, {})).store}
    IN  statuses \cup {handle_payment_succeeded(S, EarlierPayment, 1).store : S \in statuses}

InitSweep ==
    \E S \in SweepStores :
        /\ transactions = S.tx
        /\ payment_links = S.pl
        /\ subscription_links = S.sl
        /\ stripe_accounts = S.acc
        /\ sub_metadata = S.sub
        /\ stripe_subscriptions = S.subs
        /\ today = 1
        /\ created_of = [o \in Objects |-> IF o = PiId(1) /\ S.tx # {} THEN 1 ELSE -1]
        /\ calls = 0
        /\ pre = S
        /\ last = Call("", NoEvent, "")
        /\ procs = <<>>
        /\ quote = NoQuote
        /\ link_items = {}

SweepPcs == {"s_record", "s_status", "s_principal", "s_pending", "s_transfer",
             "s_clear", "s_done"}

IsSweep(p) == procs[p].pc \in SweepPcs

SweepProc(ev, pc) ==
    [ev |-> ev, pc |-> pc, ret |-> "", target |-> "", pending |-> EmptyMap,
     sent |-> EmptyMap, cleared |-> FALSE]

Sweeps == {p \in 1..Len(procs) : IsSweep(p)}

SweepEvents ==
    {AccountEvent(TRUE, TRUE, t) : t \in SUBSET {"gbp"}}
        \cup {AccountEvent(FALSE, FALSE, {})}

UnchangedBySweep ==
    UNCHANGED <<transactions, payment_links, subscription_links, sub_metadata, stripe_subscriptions,
                today, created_of, calls, pre, last, quote, link_items>>

\* the webhook route hands an account.updated event to a new invocation
ArriveAccountUpdated ==
    /\ Cardinality(Sweeps) < MaxSweeps
    /\ \E ev \in SweepEvents : procs' = Append(procs, SweepProc(ev, "s_record"))
    /\ UNCHANGED stripe_accounts
    /\ UnchangedBySweep

\* a request of the seller reaches GET /accounts/account
ArriveAccountRoute ==
    /\ Cardinality(Sweeps) < MaxSweeps
    /\ \E t \in SUBSET {"gbp"} :
           procs' = Append(procs, SweepProc([kind |-> "get_account",
                                             user |-> SweepSeller,
                                             transfer_ok |-> t], "s_principal"))
    /\ UNCHANGED stripe_accounts
    /\ UnchangedBySweep

\* a platform-held payment arrives once
ArrivePayment ==
    /\ \A p \in 1..Len(procs) : IsSweep(p)
    /\ procs' = Append(procs, Proc(ConcurrentPayment, "lookup", ""))
    /\ UNCHANGED stripe_accounts
    /\ UnchangedBySweep

\* handle_account_updated lines 62-78: the record is read, the status to
\* write is decided from what was read
ReadRecord ==
    \E p \in 1..Len(procs) :
        /\ procs[p].pc = "s_record"
        /\ LET found == get_by_stripe_account_id(stripe_accounts, procs[p].ev.id)
               record == stripe_accounts[CHOOSE u \in found : TRUE]
               target == new_status(record.status, procs[p].ev.details_submitted,
                                    procs[p].ev.charges_enabled)
           IN  procs' = [procs EXCEPT ![p] =
                   IF found = {} THEN [@ EXCEPT !.pc = "s_done", !.ret = "false"]
                   ELSE IF target = "" \/ target = record.status
                   THEN [@ EXCEPT !.pc = "s_done", !.ret = "true"]
                   ELSE [@ EXCEPT !.pc = "s_status", !.target = target]]
        /\ UNCHANGED stripe_accounts
        /\ UnchangedBySweep

\* line 80: update_status, unconditional
WriteStatus ==
    \E p \in 1..Len(procs) :
        /\ procs[p].pc = "s_status"
        /\ stripe_accounts' = update_status(stripe_accounts, SweepSeller,
                                            procs[p].target)
        /\ procs' = [procs EXCEPT ![p] =
               IF procs[p].target = StatusVERIFIED THEN [@ EXCEPT !.pc = "s_pending"]
               ELSE [@ EXCEPT !.pc = "s_done", !.ret = "true"]]
        /\ UnchangedBySweep

\* require_principal() of the account route
ReadPrincipal ==
    \E p \in 1..Len(procs) :
        /\ procs[p].pc = "s_principal"
        /\ procs' = [procs EXCEPT ![p] =
               IF principal_allowed([acc |-> stripe_accounts], SweepSeller,
                                    {StatusNEW, StatusRESTRICTED, StatusVERIFIED})
               THEN [@ EXCEPT !.pc = "s_pending"]
               ELSE [@ EXCEPT !.pc = "s_done", !.ret = "403"]]
        /\ UNCHANGED stripe_accounts
        /\ UnchangedBySweep

\* get_pending_earnings: the balances the sweep will transfer
ReadPending ==
    \E p \in 1..Len(procs) :
        /\ procs[p].pc = "s_pending"
        /\ LET pending == get_pending_earnings(stripe_accounts, SweepSeller)
           IN  procs' = [procs EXCEPT ![p] =
                   IF DOMAIN pending = {}
                   THEN [@ EXCEPT !.pc = "s_done",
                                  !.ret = IF procs[p].ev.kind = ACCOUNT_UPDATED THEN "true"
                                          ELSE "settled"]
                   ELSE [@ EXCEPT !.pc = "s_transfer", !.pending = pending]]
        /\ UNCHANGED stripe_accounts
        /\ UnchangedBySweep

\* one transfer per currency read, of the amount read
CreateTransfers ==
    \E p \in 1..Len(procs) :
        /\ procs[p].pc = "s_transfer"
        /\ LET ok == (DOMAIN procs[p].pending) \cap procs[p].ev.transfer_ok
               failed == (DOMAIN procs[p].pending) \ ok
               ret == IF procs[p].ev.kind = ACCOUNT_UPDATED THEN "true"
                      ELSE IF failed # {} THEN "in_progress" ELSE "settled"
           IN  procs' = [procs EXCEPT ![p] =
                   IF ok = {} THEN [@ EXCEPT !.pc = "s_done", !.ret = ret]
                   ELSE [@ EXCEPT !.pc = "s_clear", !.ret = ret,
                                  !.sent = [c \in ok |-> procs[p].pending[c]]]]
        /\ UNCHANGED stripe_accounts
        /\ UnchangedBySweep

\* clear_pending_earnings(only_currencies=transferred): the keys are removed;
\* or the write raises and the table stays as it is
ClearPendingEarnings ==
    \E p \in 1..Len(procs), write_ok \in BOOLEAN :
        /\ procs[p].pc = "s_clear"
        /\ stripe_accounts' =
               IF write_ok
               THEN clear_pending_earnings(stripe_accounts, SweepSeller,
                                           DOMAIN procs[p].sent)
               ELSE stripe_accounts
        /\ procs' = [procs EXCEPT ![p] =
               IF write_ok THEN [@ EXCEPT !.pc = "s_done", !.cleared = TRUE]
               ELSE [@ EXCEPT !.pc = "s_done",
                              !.ret = IF procs[p].ev.kind = ACCOUNT_UPDATED THEN "false"
                                      ELSE "raise"]]
        /\ UnchangedBySweep

NextSweep ==
    \/ ArriveAccountUpdated
    \/ ArriveAccountRoute
    \/ ArrivePayment
    \/ ReadRecord
    \/ WriteStatus
    \/ ReadPrincipal
    \/ ReadPending
    \/ CreateTransfers
    \/ ClearPendingEarnings
    \/ Lookup
    \/ PutTransaction
    \/ AddPaymentResult
    \/ AddPendingEarnings
    \/ AddEarnings

SpecSweep == InitSweep /\ [][NextSweep]_vars

----------------------------------------------------------------------------
(* SpecLinks: sellers create their account and their links *)

MaxLinkCalls == 4

\* payload.amount of the links created
LinkAmounts == {100, 500001}

\* POST /payment-links and POST /subscriptions by a signed-in seller
PostLink(table) ==
    \E u \in Users, outcome \in LinkOutcomes, amount \in LinkAmounts,
       currency \in LinkCurrencies :
        /\ calls < MaxLinkCalls
        /\ LET link_id == Cardinality(link_items) + 1
               r == create_link(Store, link_items, table, u, link_id, outcome)
           IN  /\ link_items' = r.items
               /\ last' = [Call("create_link",
                                [kind |-> "create_link", table |-> table,
                                 user |-> u, link_id |-> link_id,
                                 outcome |-> outcome, amount |-> amount,
                                 currency |-> currency], r.ret) EXCEPT
                              !.out =
                                  IF r.ret \in {"200", "500"}
                                  THEN <<link_request(table, amount, currency)>>
                                  ELSE <<>>]
        /\ pre' = Store
        /\ calls' = calls + 1
        /\ UNCHANGED <<transactions, payment_links, subscription_links,
                       stripe_accounts, sub_metadata, stripe_subscriptions, today, created_of,
                       procs, quote>>

\* StripeAccountRepository.create(user_id, stripe_account_id, country)
CreateAccountItem ==
    \E u \in Users, sid \in {"", "acct_u1", "acct_zz"} :
        /\ calls < MaxLinkCalls
        /\ stripe_accounts' = create(stripe_accounts, u, sid)
        /\ last' = Call("create", [kind |-> "create", user |-> u, sid |-> sid],
                        IF create_raises(stripe_accounts, u) THEN "raise"
                        ELSE "none")
        /\ pre' = Store
        /\ calls' = calls + 1
        /\ UNCHANGED <<transactions, payment_links, subscription_links,
                       sub_metadata, stripe_subscriptions, today, created_of, procs, quote,
                       link_items>>

\* the scheduled run of the expiry handler; due are the rows whose expires_at
\* has passed, failed the rows whose processor disable raises
ExpireLinks ==
    \E due \in SUBSET {r \in link_items : r.status = "ACTIVE"} :
        \E failed \in SUBSET due :
            /\ calls < MaxLinkCalls
            /\ LET r == expire_links(Store, link_items, due, failed)
               IN  /\ link_items' = r.items
                   /\ last' = [Call("expire_links",
                                    [kind |-> "expire_links", due |-> due,
                                     failed |-> failed], "none") EXCEPT
                                  !.out = <<r.result>>]
            /\ pre' = Store
            /\ calls' = calls + 1
            /\ UNCHANGED <<transactions, payment_links, subscription_links,
                           stripe_accounts, sub_metadata, stripe_subscriptions,
                           today, created_of, procs, quote>>

CreatePaymentLink == PostLink("payment_links")

CreateSubscriptionLink == PostLink("subscriptions")

CreateConnectedAccountL == PostConnectedAccount(MaxLinkCalls)

NextLinks ==
    \/ CreatePaymentLink
    \/ CreateSubscriptionLink
    \/ CreateConnectedAccountL
    \/ CreateAccountItem
    \/ ExpireLinks

SpecLinks == Init /\ [][NextLinks]_vars

----------------------------------------------------------------------------
(* SpecFees: one quote of the fee engine and its reversal, over amounts at
   and next to every tier threshold *)

FeeAmounts ==
    {-1, 0, 100}
        \cup {USD_TIER_THRESHOLDS_CENTS[i] : i \in DOMAIN USD_TIER_THRESHOLDS_CENTS}
        \cup {USD_TIER_THRESHOLDS_CENTS[i] + 1 : i \in DOMAIN USD_TIER_THRESHOLDS_CENTS}

\* the supported codes, an unknown one, a missing one and an upper-case one
FeeCurrencies == SupportedCurrencies \cup {"chf", "", "USD"}

\* core/settings.py: FIXED_FEE, SERVICE_FEE_PERCENT and the processor's cut
FeeSettings ==
    [fixed_fee : {50}, service_fee_percent : {0, 50}, stripe_fee_percent : {0, 29}]

FeeInputs ==
    [stage : {"input"}, amount_cents : FeeAmounts, currency : FeeCurrencies,
     fixed_fee : {<<>>, <<0>>, <<50>>},
     service_fee_percent : {<<>>, <<0>>, <<50>>, <<500>>},
     stripe_fee_percent : {<<>>, <<500>>, <<1000>>},
     settings : FeeSettings, out : {FeeError}, back : {<<>>}]

InitFees ==
    /\ InitStore
    /\ quote \in FeeInputs

\* amount_with_fee(amount, currency=..., fixed_fee=..., ...)
QuoteFee ==
    /\ quote.stage = "input"
    /\ quote' = [quote EXCEPT
                    !.stage = "quoted",
                    !.out = amount_with_fee(quote.amount_cents, quote.currency,
                                            quote.fixed_fee,
                                            quote.service_fee_percent,
                                            quote.stripe_fee_percent,
                                            quote.settings)]
    /\ UNCHANGED <<transactions, payment_links, subscription_links,
                   stripe_accounts, sub_metadata, stripe_subscriptions, today, created_of, calls,
                   pre, last, procs, link_items>>

\* base_amount_from_total(total) of a quoted total
ReverseTotal ==
    /\ quote.stage = "quoted"
    /\ quote.out.err = ""
    /\ quote' = [quote EXCEPT
                    !.stage = "reversed",
                    !.back = base_amount_from_total(quote.out.total_cents,
                                                    quote.settings)]
    /\ UNCHANGED <<transactions, payment_links, subscription_links,
                   stripe_accounts, sub_metadata, stripe_subscriptions, today, created_of, calls,
                   pre, last, procs, link_items>>

NextFees ==
    \/ QuoteFee
    \/ ReverseTotal

SpecFees == InitFees /\ [][NextFees]_vars

----------------------------------------------------------------------------
(* The last call, as the claims read it *)

\* the metadata an event carries in its own payload
PayloadMeta(ev) ==
    IF ev.kind = INVOICE_PAID /\ ~HasPair(ev.metadata) THEN ev.line_metadata
    ELSE ev.metadata

LastPid ==
    IF last.ev.kind = INVOICE_PAID THEN invoice_payment_id(last.ev)
    ELSE PiId(last.ev.id)

LinksNow == IF last.ev.kind = INVOICE_PAID THEN subscription_links ELSE payment_links

LinksPre == IF last.ev.kind = INVOICE_PAID THEN pre.sl ELSE pre.pl

\* the last call was a succeeded payment or paid invoice, attributable from
\* its payload
Settled ==
    /\ last.op \in {PAYMENT_SUCCEEDED, INVOICE_PAID}
    /\ HasPair(PayloadMeta(last.ev))

RowsBefore(status) ==
    {r \in pre.tx : /\ r.user = PayloadMeta(last.ev).user
                    /\ r.pid = LastPid
                    /\ r.status \in status}

\* ... and it was the first delivery of a payment with no row yet, and it
\* returned true: the payment was credited by this call
Credited ==
    /\ Settled
    /\ ~last.replayed
    /\ last.ret = "true"
    /\ RowsBefore({"succeeded", "failed"}) = {}

Rank(status) ==
    CASE status = StatusNEW -> 1
      [] status = StatusRESTRICTED -> 2
      [] status = StatusVERIFIED -> 3
      [] OTHER -> 0

\* the seller an account.updated event is about, if any
EventUsers ==
    IF is_acct_id(last.ev.id) THEN get_by_stripe_account_id(pre.acc, last.ev.id)
    ELSE {}

----------------------------------------------------------------------------
(* Claims *)

\* C1: calling handle_payment_succeeded twice in sequence with the identical
\* event credits the link (earnings_amount, total_amount_paid) and the seller
\* (earnings, and pending_earnings when platform-held) exactly once - not at
\* all if the payment was already recorded as succeeded - and both calls
\* return true, from every reachable state of the store.
C1_ReplayCreditsOnce ==
    (/\ last.op = PAYMENT_SUCCEEDED
     /\ last.replayed
     /\ HasPair(last.ev.metadata)
     /\ last.ev.amount_received > 0
     /\ last.ev.metadata.base # <<>>
     /\ last.ev.metadata.base[1] >= 0)
    =>
    LET m == last.ev.metadata
        c == currency_of(last.ev)
        k == IF RowsBefore({"succeeded"}) = {} THEN 1 ELSE 0
        e == k * m.base[1]
    IN  /\ last.ret = "true"
        /\ last.ret2 = "true"
        /\ payment_links[m.link].earnings_amount
               = pre.pl[m.link].earnings_amount + e
        /\ payment_links[m.link].total_amount_paid
               = pre.pl[m.link].total_amount_paid + k * last.ev.amount_received
        /\ MapGet(stripe_accounts[m.user].earnings, c)
               = MapGet(pre.acc[m.user].earnings, c) + e
        /\ MapGet(stripe_accounts[m.user].pending_earnings, c)
               = MapGet(pre.acc[m.user].pending_earnings, c)
                 + (IF last.ev.account = "" THEN e ELSE 0)

\* payments whose events were handed to the concurrent handlers
ConcPayments == {procs[p].ev.id : p \in 1..Len(procs)}

\* C2: when handlers that processed succeeded-payment events concurrently
\* have all returned, each payment has exactly one Transaction row and was
\* added exactly once to the link aggregates and to the seller's earnings
\* and pending earnings, however their table calls interleaved.
C2_ConcurrentCreditsOnce ==
    (Len(procs) > 0 /\ \A p \in 1..Len(procs) : procs[p].pc = "done") =>
        /\ \A p \in 1..Len(procs) : procs[p].ret = "true"
        /\ Cardinality(transactions) = Cardinality(ConcPayments)
        /\ payment_links["l1"].earnings_amount = 2 * Cardinality(ConcPayments)
        /\ payment_links["l1"].total_amount_paid = 5 * Cardinality(ConcPayments)
        /\ MapGet(stripe_accounts["u1"].earnings, "gbp")
               = 2 * Cardinality(ConcPayments)
        /\ MapGet(stripe_accounts["u1"].pending_earnings, "gbp")
               = 2 * Cardinality(ConcPayments)

\* C3: the Transactions store holds at most one row per (user_id, external
\* payment id).
C3_OneRowPerPayment ==
    \A r1, r2 \in transactions :
        (r1.user = r2.user /\ r1.pid = r2.pid) => r1 = r2

\* C4: a credited payment or invoice adds exactly the base_amount of the
\* event metadata to the link's earnings_amount and to the seller's
\* earnings[currency], and the settled amount (amount_received, amount_paid)
\* to total_amount_paid.
C4_EarningsAreBaseAmount ==
    Credited =>
    LET m == PayloadMeta(last.ev)
        c == currency_of(last.ev)
    IN  /\ LinksNow[m.link].earnings_amount
               = LinksPre[m.link].earnings_amount + m.base[1]
        /\ MapGet(stripe_accounts[m.user].earnings, c)
               = MapGet(pre.acc[m.user].earnings, c) + m.base[1]
        /\ LinksNow[m.link].total_amount_paid
               = LinksPre[m.link].total_amount_paid + last.ev.amount_received

\* C5: a credited payment with earnings > 0 adds the earnings to
\* earnings[currency] always, and to pending_earnings[currency] if and only
\* if the event has no connected-account id; with one, pending_earnings is
\* left as it was.
C5_PendingOnlyWhenPlatformHeld ==
    (Credited /\ PayloadMeta(last.ev).base[1] > 0) =>
    LET m == PayloadMeta(last.ev)
        c == currency_of(last.ev)
    IN  /\ MapGet(stripe_accounts[m.user].earnings, c)
               = MapGet(pre.acc[m.user].earnings, c) + m.base[1]
        /\ last.ev.account = "" =>
               /\ MapGet(stripe_accounts[m.user].pending_earnings, c)
                      = MapGet(pre.acc[m.user].pending_earnings, c) + m.base[1]
               /\ \A d \in Currencies \ {c} :
                      MapGet(stripe_accounts[m.user].pending_earnings, d)
                          = MapGet(pre.acc[m.user].pending_earnings, d)
        /\ last.ev.account # "" =>
               stripe_accounts[m.user].pending_earnings
                   = pre.acc[m.user].pending_earnings

W5_ConnectedPaymentWithPending ==
    /\ Credited
    /\ PayloadMeta(last.ev).base[1] > 0
    /\ last.ev.account # ""
    /\ DOMAIN pre.acc["u1"].pending_earnings # {}

\* C6: a succeeded-payment event without user_id or link_id metadata makes
\* handle_payment_succeeded return false and leaves transactions, link
\* aggregates, earnings and pending_earnings unchanged.
C6_UnattributableSkip ==
    (last.op = PAYMENT_SUCCEEDED /\ ~HasPair(last.ev.metadata)) =>
        /\ last.ret = "false"
        /\ last.replayed => last.ret2 = "false"
        /\ Store = pre

W6_UnattributableAfterPayments ==
    /\ last.op = PAYMENT_SUCCEEDED
    /\ ~HasPair(last.ev.metadata)
    /\ last.ev.metadata.user # ""
    /\ transactions # {}

\* C7: an event whose settled amount (amount_received, amount_paid) is zero
\* or negative is unattributable whatever its other amount fields hold: the
\* handler returns false and writes no Transaction and no aggregate.
C7_ZeroAmountRejected ==
    (/\ last.op \in {PAYMENT_SUCCEEDED, INVOICE_PAID}
     /\ last.ev.amount_received <= 0)
    =>
        /\ last.ret = "false"
        /\ Store = pre

\* C8: no call moves a seller's status backward in NEW < RESTRICTED <
\* VERIFIED; an account.updated event with details_submitted = false leaves a
\* VERIFIED seller VERIFIED.
C8_StatusForwardOnly ==
    \A u \in Users : Rank(stripe_accounts[u].status) >= Rank(pre.acc[u].status)

W8_UnsubmittedEventAtVerified ==
    /\ last.op = ACCOUNT_UPDATED
    /\ ~last.ev.details_submitted
    /\ \E u \in EventUsers : pre.acc[u].status = StatusVERIFIED

\* C9: handle_account_updated sets the status to VERIFIED when both flags are
\* true (also from NEW), to RESTRICTED when they are not both true and the
\* status is NEW, and changes no status otherwise.
C9_StatusTransition ==
    last.op = ACCOUNT_UPDATED =>
        /\ \A u \in EventUsers :
               stripe_accounts[u].status =
                   IF last.ev.details_submitted /\ last.ev.charges_enabled
                   THEN StatusVERIFIED
                   ELSE IF pre.acc[u].status = StatusNEW THEN StatusRESTRICTED
                   ELSE pre.acc[u].status
        /\ \A u \in Users \ EventUsers :
               stripe_accounts[u].status = pre.acc[u].status

W9_NewToVerified ==
    /\ last.op = ACCOUNT_UPDATED
    /\ \E u \in EventUsers :
           /\ pre.acc[u].status = StatusNEW
           /\ stripe_accounts[u].status = StatusVERIFIED

\* C10: an account.updated event runs the pending-earnings sweep exactly when
\* it moves the status into VERIFIED; one that finds the seller VERIFIED
\* writes no status, attempts no transfer and changes nothing.
C10_SweepOnlyOnTransition ==
    last.op = ACCOUNT_UPDATED =>
        /\ last.swept <=>
               \E u \in EventUsers :
                   /\ pre.acc[u].status # StatusVERIFIED
                   /\ stripe_accounts[u].status = StatusVERIFIED
        /\ (\E u \in EventUsers : pre.acc[u].status = StatusVERIFIED) =>
               /\ ~last.wrote
               /\ last.attempts = {}
               /\ Store = pre
        /\ ~last.swept => last.attempts = {}

W10_StillVerifiedWithPending ==
    /\ last.op = ACCOUNT_UPDATED
    /\ last.ev.details_submitted
    /\ last.ev.charges_enabled
    /\ \E u \in EventUsers :
           /\ pre.acc[u].status = StatusVERIFIED
           /\ DOMAIN get_pending_earnings(pre.acc, u) # {}

SweepOps == {ACCOUNT_UPDATED, "get_account"}

\* the seller the last call was about
LastSeller ==
    IF last.op = ACCOUNT_UPDATED THEN CHOOSE u \in EventUsers : TRUE
    ELSE last.ev.user

\* C11: a sweep attempts one transfer of exactly the pending balance for each
\* currency whose balance is positive and no other transfer; a currency
\* whose transfer succeeded has no key in pending_earnings afterwards, one
\* whose transfer failed keeps its amount, so that the next sweep finds it.
C11_SweepTransfersPositiveBalances ==
    (last.op \in SweepOps /\ last.swept) =>
    LET before == pre.acc[LastSeller].pending_earnings
        after == stripe_accounts[LastSeller].pending_earnings
    IN  /\ last.attempts =
               {<<c, before[c], c \in last.ev.transfer_ok>> :
                    c \in {k \in DOMAIN before : before[k] > 0}}
        /\ \A a \in last.attempts :
               IF a[3] THEN a[1] \notin DOMAIN after
               ELSE a[1] \in DOMAIN after /\ after[a[1]] = a[2]

W11_SweepWithSuccessAndFailure ==
    /\ last.op \in SweepOps
    /\ last.swept
    /\ \E a, b \in last.attempts : a[3] /\ ~b[3]

C13_PendingDecreasesOnlyByTransfer ==
    \A u \in Users, c \in Currencies :
        MapGet(stripe_accounts[u].pending_earnings, c)
            < MapGet(pre.acc[u].pending_earnings, c)
        =>
        \E a \in last.attempts :
            /\ a[1] = c
            /\ a[3]
            /\ MapGet(pre.acc[u].pending_earnings, c)
                   - MapGet(stripe_accounts[u].pending_earnings, c) <= a[2]

\* C14: a link's total_amount_paid and earnings_amount and a seller's
\* earnings[c] are never negative and never lower than before the last
\* call, and pending_earnings[c] is never negative.
C14_AggregatesMonotone ==
    /\ \A l \in LinkIds :
           /\ payment_links[l].earnings_amount >= pre.pl[l].earnings_amount
           /\ payment_links[l].total_amount_paid >= pre.pl[l].total_amount_paid
           /\ subscription_links[l].earnings_amount >= pre.sl[l].earnings_amount
           /\ subscription_links[l].total_amount_paid >= pre.sl[l].total_amount_paid
           /\ pre.pl[l].earnings_amount >= 0 /\ pre.pl[l].total_amount_paid >= 0
           /\ pre.sl[l].earnings_amount >= 0 /\ pre.sl[l].total_amount_paid >= 0
    /\ \A u \in Users, c \in Currencies :
           /\ MapGet(stripe_accounts[u].earnings, c) >= MapGet(pre.acc[u].earnings, c)
           /\ MapGet(pre.acc[u].earnings, c) >= 0
           /\ MapGet(stripe_accounts[u].pending_earnings, c) >= 0

\* a negative base_amount was delivered after earnings had been credited
W14_NegativeBaseAmountAfterCredit ==
    /\ last.op \in {PAYMENT_SUCCEEDED, INVOICE_PAID}
    /\ HasPair(PayloadMeta(last.ev))
    /\ PayloadMeta(last.ev).base = <<-1>>
    /\ last.ret = "false"
    /\ pre.acc["u1"].earnings # EmptyMap

\* C15: the settlement target chosen for a new link is the seller's
\* connected account exactly when the seller's account status is VERIFIED,
\* and the platform account for every other status or no account.
C15_SettlementTarget ==
    last.op = "get_link_service" =>
        last.ret = IF /\ stripe_accounts[last.ev.user].exists
                      /\ stripe_accounts[last.ev.user].status = StatusVERIFIED
                   THEN "connected"
                   ELSE "platform"

\* the Transaction write of the last succeeded payment went through and a
\* later increment raised
IncrementFailed ==
    /\ last.op = PAYMENT_SUCCEEDED
    /\ last.ev.fail \in {"link", "pending", "earnings"}
    /\ HasPair(last.ev.metadata)
    /\ RowsBefore({"succeeded", "failed"}) = {}

\* C16: when the Transaction write of a succeeded payment succeeds and a
\* later aggregate increment fails, the handler returns false with the
\* Transaction recorded and only the increments before the failing one
\* applied; a later delivery of the same event returns true and changes no
\* link or seller aggregate.
C16_MissedIncrementNotRetried ==
    IncrementFailed =>
    LET m == last.ev.metadata
        c == currency_of(last.ev)
        f == last.ev.fail
        linked == IF f = "link" THEN 0 ELSE 1
        pended == IF f = "earnings" THEN 1 ELSE 0
    IN  /\ last.ret = "false"
        /\ \E r \in transactions :
               r.user = m.user /\ r.pid = LastPid /\ r.status = "succeeded"
        /\ last.replayed => last.ret2 = "true"
        /\ payment_links[m.link].earnings_amount
               = pre.pl[m.link].earnings_amount + linked * m.base[1]
        /\ payment_links[m.link].total_amount_paid
               = pre.pl[m.link].total_amount_paid + linked * last.ev.amount_received
        /\ MapGet(stripe_accounts[m.user].pending_earnings, c)
               = MapGet(pre.acc[m.user].pending_earnings, c) + pended * m.base[1]
        /\ MapGet(stripe_accounts[m.user].earnings, c)
               = MapGet(pre.acc[m.user].earnings, c)

\* C17: every payment event that passed the signature check is answered
\* with a success acknowledgement, whatever the dispatched handler did.
C17_WebhookAlwaysAcknowledges ==
    last.op \in {PAYMENT_SUCCEEDED, PAYMENT_FAILED, INVOICE_PAID} =>
        /\ last.http = "200"
        /\ last.replayed => last.http2 = "200"

\* handlers whose position is one of pcs
ProcsAt(pcs) == {p \in 1..Len(procs) : procs[p].pc \in pcs}

DistinctPayments ==
    \A p, q \in 1..Len(procs) : procs[p].ev.id = procs[q].ev.id => p = q

\* C18: while handlers process distinct succeeded payments of one link and
\* one seller in any interleaving, each aggregate equals the sum of the
\* increments made so far, and when all handlers have returned,
\* earnings_amount, total_amount_paid, earnings[c] and pending_earnings[c]
\* equal the sums over all the payments: no increment is lost.
C18_NoLostIncrement ==
    (Len(procs) > 0 /\ DistinctPayments) =>
        /\ payment_links["l1"].earnings_amount
               = 2 * Cardinality(ProcsAt({"pending", "earnings", "done"}))
        /\ payment_links["l1"].total_amount_paid
               = 5 * Cardinality(ProcsAt({"pending", "earnings", "done"}))
        /\ MapGet(stripe_accounts["u1"].pending_earnings, "gbp")
               = 2 * Cardinality(ProcsAt({"earnings", "done"}))
        /\ MapGet(stripe_accounts["u1"].earnings, "gbp")
               = 2 * Cardinality(ProcsAt({"done"}))
        /\ \A p \in ProcsAt({"done"}) : procs[p].ret = "true"

W18_AllDistinctPaymentsHandled ==
    /\ Len(procs) = MaxProcs
    /\ DistinctPayments
    /\ ProcsAt({"done"}) = 1..Len(procs)
    /\ Cardinality(transactions) = MaxProcs

\* C19: handle_payment_failed on an attributable event writes a Transaction
\* with status failed for the payment and leaves every link aggregate, the
\* seller's earnings and the seller's pending_earnings unchanged.
C19_FailedPaymentCreditsNothing ==
    (/\ last.op = PAYMENT_FAILED
     /\ HasPair(last.ev.metadata)
     /\ last.ev.fail = "")
    =>
        /\ last.ret = "true"
        /\ \E r \in transactions :
               /\ r.user = last.ev.metadata.user
               /\ r.pid = PiId(last.ev.id)
               /\ r.status = "failed"
               /\ r.amount = last.ev.amount
        /\ payment_links = pre.pl
        /\ subscription_links = pre.sl
        /\ stripe_accounts = pre.acc

W19_FailedAfterCreditedPayment ==
    /\ last.op = PAYMENT_FAILED
    /\ HasPair(last.ev.metadata)
    /\ last.ev.fail = ""
    /\ RowsBefore({"succeeded"}) # {}
    /\ pre.acc["u1"].earnings # EmptyMap

\* the metadata the invoice handler attributes the last invoice with, after
\* the payload, subscription and payment-intent fallbacks
InvoiceAttribution == extract_from_invoice(last.ev, pre.sub).res

\* the last call was the first delivery of a paid invoice that is attributable,
\* carries a usable base_amount, and whose payment id has no row yet
NewAttributableInvoice ==
    /\ last.op = INVOICE_PAID
    /\ ~last.replayed
    /\ last.ev.fail = ""
    /\ InvoiceAttribution # <<>>
    /\ LET x == InvoiceAttribution[1]
       IN  /\ x.base # <<>>
           /\ x.base[1] >= 0
           /\ x.amount > 0
           /\ {r \in pre.tx : r.user = x.user /\ r.pid = LastPid} = {}

\* C20: every paid invoice with attributable metadata, a positive amount and
\* a payment id not yet recorded credits the subscription link and the seller
\* exactly once, whether its billing_reason is the creation of the
\* subscription or a renewal: one succeeded row, the link's totals and the
\* seller's earnings raised by one payment.
C20_EveryInvoiceCredited ==
    NewAttributableInvoice =>
    LET x == InvoiceAttribution[1]
        c == x.currency
    IN  /\ last.ret = "true"
        /\ Cardinality({r \in transactions :
                            r.user = x.user /\ r.pid = LastPid}) = 1
        /\ \A r \in transactions :
               (r.user = x.user /\ r.pid = LastPid) => r.status = "succeeded"
        /\ subscription_links[x.link].earnings_amount
               = pre.sl[x.link].earnings_amount + x.base[1]
        /\ subscription_links[x.link].total_amount_paid
               = pre.sl[x.link].total_amount_paid + x.amount
        /\ MapGet(stripe_accounts[x.user].earnings, c)
               = MapGet(pre.acc[x.user].earnings, c) + x.base[1]
        /\ MapGet(stripe_accounts[x.user].pending_earnings, c)
               = MapGet(pre.acc[x.user].pending_earnings, c)
                     + (IF last.ev.account = "" THEN x.base[1] ELSE 0)

W20_RenewalAfterCreation ==
    /\ NewAttributableInvoice
    /\ last.ev.billing_reason = "subscription_cycle"
    /\ InvoiceAttribution[1].base[1] > 0
    /\ \E l \in DOMAIN pre.sl : pre.sl[l].earnings_amount > 0

\* the metadata sources of the last invoice in the order they are tried: the
\* payload, the subscription at the processor (when it can be fetched), the
\* invoice's payment intent
InvoiceSources ==
    <<PayloadMeta(last.ev),
      IF last.ev.sub_ok THEN pre.sub ELSE NoMeta,
      metadata_from_invoice_payment_intent(last.ev)>>

FirstSourceWithPair ==
    LET found == {i \in 1..3 : HasPair(InvoiceSources[i])}
    IN  IF found = {} THEN 0
        ELSE CHOOSE i \in found : \A j \in found : i <= j

\* C21: for an invoice with a subscription and a positive amount the metadata
\* sources are tried in order (payload, subscription, payment intent) until
\* one yields both user_id and link_id; extraction is absent only when none
\* of them yields the pair, also when the subscription cannot be fetched.
C21_InvoiceFallbackOrder ==
    (/\ last.op = INVOICE_PAID
     /\ ~last.replayed
     /\ last.ev.subscription
     /\ last.ev.amount_received > 0)
    =>
    IF FirstSourceWithPair = 0 THEN InvoiceAttribution = <<>>
    ELSE /\ InvoiceAttribution # <<>>
         /\ LET m == InvoiceSources[FirstSourceWithPair]
                x == InvoiceAttribution[1]
            IN  x.user = m.user /\ x.link = m.link /\ x.base = m.base

\* C22: an invoice attributed through the payment-intent fallback writes
\* user_id, link_id and base_amount back onto the subscription at the
\* processor when the modify call succeeds; an invoice that finds the pair on
\* the subscription is attributed to that user and link from the subscription,
\* not from the payment intent.
C22_WriteBackHeals ==
    (/\ last.op = INVOICE_PAID
     /\ ~last.replayed
     /\ last.ev.subscription)
    =>
    /\ (FirstSourceWithPair = 3 /\ last.ev.sub_ok /\ last.ev.mod_ok) =>
           sub_metadata = metadata_from_invoice_payment_intent(last.ev)
    /\ (/\ HasPair(pre.sub)
        /\ ~HasPair(PayloadMeta(last.ev))
        /\ last.ev.sub_ok
        /\ last.ev.amount_received > 0) =>
           /\ FirstSourceWithPair = 2
           /\ InvoiceAttribution # <<>>
           /\ InvoiceAttribution[1].user = pre.sub.user
           /\ InvoiceAttribution[1].link = pre.sub.link
           /\ InvoiceAttribution[1].base = pre.sub.base
           /\ sub_metadata = pre.sub

W22_LaterInvoiceUsesSubscription ==
    /\ last.op = INVOICE_PAID
    /\ ~last.replayed
    /\ HasPair(pre.sub)
    /\ ~HasPair(PayloadMeta(last.ev))
    /\ last.ev.sub_ok
    /\ ~HasPair(last.ev.pi_metadata)
    /\ last.ret = "true"

\* a quote was produced by the last call of the fee engine
Quoted == quote.stage \in {"quoted", "reversed"} /\ quote.out.err = ""

\* the same call for another amount
QuoteFor(b) ==
    amount_with_fee(b, quote.currency, quote.fixed_fee, quote.service_fee_percent,
                    quote.stripe_fee_percent, quote.settings)

\* the processor percentage of the last call
QuotedStripePercent ==
    IF quote.stripe_fee_percent = <<>> THEN quote.settings.stripe_fee_percent
    ELSE quote.stripe_fee_percent[1]

\* C23: for every supported currency and all amounts 0 <= a <= b the fixed
\* tier fee of a is not larger than that of b, and the total quoted for a is
\* not larger than the total quoted for b.
C23_FeeMonotone ==
    (Quoted /\ normalized_currency(quote.currency) \in SupportedCurrencies) =>
    \A b \in FeeAmounts :
        b >= quote.amount_cents =>
            /\ tier_fixed_fee(quote.amount_cents, quote.currency)
                   <= tier_fixed_fee(b, quote.currency)
            /\ QuoteFor(b).err = ""
            /\ quote.out.total_cents <= QuoteFor(b).total_cents

W23_QuoteAtTierThreshold ==
    /\ Quoted
    /\ quote.currency = "gbp"
    /\ quote.fixed_fee = <<>>
    /\ quote.amount_cents = 500000
    /\ quote.out.service_fee_cents < tier_fixed_fee(500001, "gbp")

\* C24: for every currency and every amount a >= 0 the quoted total is at
\* least a.
C24_TotalCoversAmount ==
    Quoted => quote.out.total_cents >= quote.amount_cents

W24_QuoteOfZeroWithoutFee ==
    /\ Quoted
    /\ quote.amount_cents = 0
    /\ quote.fixed_fee = <<0>>
    /\ quote.out.total_cents = 0

C26_ReversalWithinOne ==
    (/\ quote.stage = "reversed"
     /\ quote.fixed_fee = <<quote.settings.fixed_fee>>
     /\ quote.service_fee_percent = <<quote.settings.service_fee_percent>>
     /\ QuotedStripePercent = quote.settings.stripe_fee_percent)
    =>
    /\ quote.back # <<>>
    /\ quote.back[1] - quote.amount_cents <= 1
    /\ quote.amount_cents - quote.back[1] <= 1

\* C27: amount_with_fee fails and returns no quote whenever the service
\* percentage and the processor percentage passed to it add up to 100 or
\* more.
C27_RejectsCombinedPercent ==
    (/\ quote.stage \in {"quoted", "reversed"}
     /\ quote.amount_cents >= 0
     /\ quote.service_fee_percent # <<>>
     /\ quote.stripe_fee_percent # <<>>
     /\ quote.service_fee_percent[1] + quote.stripe_fee_percent[1] >= 1000)
    =>
    quote.out.err = "ValueError"

\* C28: when the processor call fails during the creation of a payment or
\* subscription link, the request fails towards the caller and the draft
\* written before it is not left as an ACTIVE link record.
C28_FailedCreationLeavesNoActiveDraft ==
    (/\ last.op = "create_link"
     /\ last.ev.outcome = "stripe_error"
     /\ last.ret # "403")
    =>
    /\ last.ret = "400"
    /\ \A r \in link_items :
           (r.table = last.ev.table /\ r.link_id = last.ev.link_id)
               => r.status # "ACTIVE"

\* C29: the table holds at most one seller account per user: a create for
\* a user who already has an account fails and leaves the existing record,
\* its stripe_account_id and status included, as it was; a create for a user
\* without one stores the new account with status NEW.
C29_OneAccountPerUser ==
    last.op = "create" =>
    LET u == last.ev.user
    IN  IF pre.acc[u].exists
        THEN /\ last.ret = "raise"
             /\ stripe_accounts = pre.acc
        ELSE /\ last.ret = "none"
             /\ stripe_accounts[u].exists
             /\ stripe_accounts[u].stripe_account_id = last.ev.sid
             /\ stripe_accounts[u].status = StatusNEW
             /\ \A v \in Users \ {u} : stripe_accounts[v] = pre.acc[v]

W29_SecondCreateWithOtherAccountId ==
    /\ last.op = "create"
    /\ pre.acc[last.ev.user].exists
    /\ pre.acc[last.ev.user].stripe_account_id = "acct_u1"
    /\ pre.acc[last.ev.user].status = StatusRESTRICTED
    /\ last.ev.sid = "acct_zz"

\* C30: whenever handle_payment_succeeded returns true for an event, a
\* Transaction with status succeeded exists for its (user_id, payment id),
\* and unless the payment was credited before, this call credited the event's
\* earnings to the link and the seller; also when a payment_failed event of
\* the same payment id was handled earlier.
C30_TrueMeansCredited ==
    (/\ last.op = PAYMENT_SUCCEEDED
     /\ ~last.replayed
     /\ last.ret = "true")
    =>
    LET m == last.ev.metadata
        c == currency_of(last.ev)
    IN  /\ \E r \in transactions :
               r.user = m.user /\ r.pid = LastPid /\ r.status = "succeeded"
        /\ RowsBefore({"succeeded"}) = {} =>
               /\ payment_links[m.link].earnings_amount
                      = pre.pl[m.link].earnings_amount + m.base[1]
               /\ MapGet(stripe_accounts[m.user].earnings, c)
                      = MapGet(pre.acc[m.user].earnings, c) + m.base[1]

\* C31: get_by_payment_intent_id(user_id, payment_id) returns a Transaction
\* of that payment id whenever the user has one, however many other rows the
\* user has and wherever the matching row sorts among them.
C31_LookupFindsEveryPayment ==
    \A r \in transactions :
        \E f \in get_by_payment_intent_id(transactions, r.user, r.pid) :
            f.user = r.user /\ f.pid = r.pid

\* what the sweeps of procs[1..n] have transferred in currency c
RECURSIVE SentUpTo(_, _)
SentUpTo(n, c) ==
    IF n = 0 THEN 0
    ELSE SentUpTo(n - 1, c)
             + (IF IsSweep(n) THEN MapGet(procs[n].sent, c) ELSE 0)

TransferredTotal(c) == SentUpTo(Len(procs), c)

ConcurrentCredit == extract_from_payment_intent(ConcurrentPayment)[1]

\* what has been credited to the seller's pending balance in currency c: the
\* balance the run started with, and the concurrent payment once its
\* add_pending_earnings call is done
CreditedToPending(c) ==
    MapGet(pre.acc[SweepSeller].pending_earnings, c)
        + (IF /\ c = ConcurrentCredit.currency
              /\ \E p \in 1..Len(procs) :
                     ~IsSweep(p) /\ procs[p].pc \in {"earnings", "done"}
           THEN earnings_from_base_amount(ConcurrentCredit)
           ELSE 0)

StillPending(c) == MapGet(stripe_accounts[SweepSeller].pending_earnings, c)

\* every sweep has returned, and every sweep that transferred has removed
\* the keys it transferred
SweepsSettled ==
    \A p \in Sweeps :
        procs[p].pc = "s_done" /\ (DOMAIN procs[p].sent # {} => procs[p].cleared)

\* C32: for a seller and a currency, under any interleaving of one sweep with
\* the handler of a platform-held payment, once the sweep has returned with
\* its clearing write done, the amount credited to pending equals the amount
\* transferred plus the amount still pending; a payment credited between the
\* sweep's read and its removal of the key is not dropped.
C32_SweepConservesPending ==
    (Cardinality(Sweeps) = 1 /\ SweepsSettled)
        => \A c \in Currencies :
               CreditedToPending(c) = TransferredTotal(c) + StillPending(c)

\* C33: the total transferred to a seller in a currency never exceeds the
\* total ever credited to the seller's pending balance in that currency,
\* under any interleaving of sweeps and when a clearing write fails after
\* the transfer succeeded.
C33_NeverTransfersMoreThanCredited ==
    \A c \in Currencies : TransferredTotal(c) <= CreditedToPending(c)

\* C34: under any interleaving of account.updated handlers of one seller, the
\* stored status never goes from VERIFIED to RESTRICTED.
C34_VerifiedNeverRestricted ==
    [][~(/\ stripe_accounts[SweepSeller].status = StatusVERIFIED
         /\ stripe_accounts'[SweepSeller].status = StatusRESTRICTED)]_vars

\* the sum of the amounts of the succeeded rows of link l in txs
RECURSIVE SucceededAmount(_, _)
SucceededAmount(txs, l) ==
    IF txs = {} THEN 0
    ELSE LET r == CHOOSE x \in txs : TRUE
         IN  (IF r.link = l /\ r.status = "succeeded" THEN r.amount ELSE 0)
                 + SucceededAmount(txs \ {r}, l)

\* the last call was the first delivery of a succeeded or failed payment
\* event, and none of its storage calls failed
StoredPaymentEvent ==
    /\ last.op \in {PAYMENT_SUCCEEDED, PAYMENT_FAILED}
    /\ ~last.replayed
    /\ last.ev.fail = ""

\* C35: a succeeded or failed payment event whose storage calls all succeed
\* moves each link's total_amount_paid by as much as the sum of the amounts
\* of the link's succeeded Transactions, so the two stay equal from the empty
\* tables on; and a payment_failed event leaves every succeeded Transaction
\* succeeded.
C35_TotalPaidIsSumOfSucceeded ==
    StoredPaymentEvent =>
        /\ \A l \in LinkIds :
               payment_links[l].total_amount_paid - pre.pl[l].total_amount_paid
                   = SucceededAmount(transactions, l) - SucceededAmount(pre.tx, l)
        /\ last.op = PAYMENT_FAILED =>
               \A r \in pre.tx :
                   r.status = "succeeded" =>
                       \E t \in transactions : SameKey(t, r) /\ t.status = "succeeded"

\* what the handler of the last succeeded payment or paid invoice extracted
LastExtracted ==
    IF last.op = INVOICE_PAID THEN extract_from_invoice(last.ev, pre.sub).res
    ELSE extract_from_payment_intent(last.ev)

\* the last call was the first delivery of a succeeded payment or paid
\* invoice with user_id and link_id and no base_amount, storage healthy
NoUsableBaseAmount ==
    /\ last.op \in {PAYMENT_SUCCEEDED, INVOICE_PAID}
    /\ ~last.replayed
    /\ last.ev.fail = ""
    /\ LastExtracted # <<>>
    /\ LastExtracted[1].base = <<>>

\* C36: a succeeded payment or paid invoice that has user_id and link_id but
\* no usable base_amount is a terminal skip: the handler returns false
\* without raising and writes no Transaction and no aggregate.
C36_MissingBaseAmountIsSkipped ==
    NoUsableBaseAmount =>
        /\ last.ret = "false"
        /\ transactions = pre.tx
        /\ payment_links = pre.pl
        /\ subscription_links = pre.sl
        /\ stripe_accounts = pre.acc

\* the last call was GET /accounts/account by a seller with positive pending
\* earnings and no connected-account id
SweepWithoutConnectedAccount ==
    /\ last.op = "get_account"
    /\ DOMAIN get_pending_earnings(pre.acc, last.ev.user) # {}
    /\ pre.acc[last.ev.user].stripe_account_id = ""

C38_SubscriberRecordedOnCreation ==
    (Credited /\ last.op = INVOICE_PAID) =>
        stripe_subscriptions = upsert_from_invoice_paid(pre.subs, last.ev)

\* the last call created a link at the processor
LinkCreatedAtProcessor == last.op = "create_link" /\ last.out # <<>>

\* C37: for every link created through the payment-link and subscription-link
\* routes, the amount charged at the processor equals the fee quote for the
\* base amount in the link's own currency, and the base_amount of the link's
\* metadata equals the seller's requested amount.
C37_LinkChargesQuoteOfItsCurrency ==
    LinkCreatedAtProcessor =>
        /\ last.out[1].unit_amount
               = amount_with_fee(last.ev.amount, last.ev.currency, <<>>, <<>>,
                                 <<>>, default_settings).total_cents
        /\ last.out[1].base_amount = <<last.ev.amount>>
        /\ last.out[1].currency = last.ev.currency

\* the row of link_items a candidate of the last expiry run has become
RowNow(c) == CHOOSE r \in link_items : r.table = c.table /\ r.link_id = c.link_id

\* the candidates of the last expiry run in a table that are now EXPIRED
MarkedExpired(table) ==
    {c \in last.ev.due : c.table = table /\ RowNow(c).status = "EXPIRED"}

\* C40: after a run of the expiry handler every ACTIVE candidate whose
\* processor disable succeeded is EXPIRED, every candidate whose disable
\* failed is still ACTIVE, the other candidates being processed all the
\* same, and the returned expired_links and expired_subscriptions equal the
\* numbers of rows actually marked EXPIRED.
C40_ExpiryCountsWhatItMarked ==
    last.op = "expire_links" =>
        /\ \A c \in last.ev.due :
               RowNow(c).status
                   = IF disable_raises(pre, c, last.ev.failed) THEN "ACTIVE"
                     ELSE "EXPIRED"
        /\ last.out[1].expired_links = Cardinality(MarkedExpired("payment_links"))
        /\ last.out[1].expired_subscriptions
               = Cardinality(MarkedExpired("subscriptions"))

====
